---- MODULE Spec2Model ----
(***************************************************************************)
(* The configuration accessor (app/src/lib/config.ts), the retrying        *)
(* forwarder (app/src/lib/fetchWithRetry.ts) and the greeting proxy        *)
(* handlers (app/src/pages/api/greetings/index.ts and [id].ts) of the      *)
(* Astro WebUI backend-for-frontend, with its config and health endpoints  *)
(* (app/src/pages/api/config.ts, health.ts), as a state machine.           *)
(*                                                                         *)
(* A JavaScript string is a sequence of tokens.  A token of the numeric    *)
(* alphabet (a digit, a sign, a blank, a dot) is one character; any other  *)
(* token stands for a run of one or more characters none of which is a     *)
(* digit, a sign or white space.  A JavaScript value is a tagged record.   *)
(***************************************************************************)
EXTENDS Integers, Sequences, FiniteSets, TLC

VARIABLES
    env,          \* process.env: AWS_SSM_ENDPOINT
    ssmClient,    \* config.ts: the module-level singleton client
    store,        \* the parameter store: what send() settles to, per leaf
    acc,          \* the last direct call of a Setting accessor, its outcome
                  \* and the store it ran against
    logger,       \* logger.ts: the module-level logger, its level, and the
                  \* initLogLevel() call started at module load
    pc,           \* per request: the position of its handler
    handler,      \* per request: the route handler that serves it
    inbound,      \* per request: params.id and the inbound body; for a direct
                  \* call of the forwarder, the signal in its options and
                  \* whether the caller has aborted it
    backendUrl,   \* per request: const backendUrl
    description,  \* per request: const description (GET /api/config)
    reqBody,      \* per request: const body (POST)
    pending,      \* per request: configuration lookups of Promise.all not yet settled
    timeoutMs,    \* per request: const timeoutMs
    retryCount,   \* per request: const retryCount
    attempt,      \* per request: let attempt
    lastError,    \* per request: let lastError
    fetchCalls,   \* per request: the calls of fetch() issued, in order
    outcomes,     \* per request: what the upstream made of each call, in order
    logs,         \* per request: the records given to the pino logger, in order
    queries,      \* per request: the parameter names sent to the store, in order
    diag,         \* per request: the console.error diagnostics, in order
    fwd,          \* per request: how the fetchWithRetry promise settled, and
                  \* whether the body of its response has been read
    external      \* per request: how the handler promise settled

vars == <<env, ssmClient, store, acc, logger, pc, handler, inbound, backendUrl, description, reqBody,
          pending, timeoutMs, retryCount, attempt, lastError, fetchCalls, outcomes,
          logs, queries, diag, fwd, external>>

reqVars == <<pc, handler, inbound, backendUrl, description, reqBody, pending, timeoutMs,
             retryCount, attempt, lastError, fetchCalls, outcomes, logs, queries,
             diag, fwd, external>>

-----------------------------------------------------------------------------
(* Bounds of the model.                                                    *)

\* Longest stored string enumerated for the accessors.
MaxLen == 3

\* Largest retry count stored as a decimal literal for the forwarder.
MaxRetryStored == 2

\* The characters stored strings are made of.
Alphabet == {"0", "1", "5", "-", "+", " ", ".", "a"}

StoredStrings == UNION {[1..k -> Alphabet] : k \in 0..MaxLen}

-----------------------------------------------------------------------------
(* JavaScript values.                                                      *)

Undefined == [t |-> "undefined"]
Null == [t |-> "null"]
NaN == [t |-> "nan"]
Num(n) == [t |-> "num", n |-> n]
Str(s) == [t |-> "str", s |-> s]

\* ToBoolean of the values an environment variable takes.
Truthy(v) == v.t = "str" /\ v.s # <<>>

\* a ?? b
Coalesce(a, b) == IF a \in {Undefined, Null} THEN b ELSE a

-----------------------------------------------------------------------------
(* parseInt(string, 10) of ECMAScript.                                     *)

StrWhiteSpaceChar == {" ", "\t", "\n", "\r"}
Digit == {"0", "1", "2", "3", "4", "5", "6", "7", "8", "9"}

DigitValue(c) ==
    CASE c = "0" -> 0 [] c = "1" -> 1 [] c = "2" -> 2 [] c = "3" -> 3
      [] c = "4" -> 4 [] c = "5" -> 5 [] c = "6" -> 6 [] c = "7" -> 7
      [] c = "8" -> 8 [] c = "9" -> 9

RECURSIVE TrimStart(_)
TrimStart(s) ==
    IF s # <<>> /\ Head(s) \in StrWhiteSpaceChar THEN TrimStart(Tail(s)) ELSE s

RECURSIVE DigitPrefix(_)
DigitPrefix(s) ==
    IF s # <<>> /\ Head(s) \in Digit
        THEN <<Head(s)>> \o DigitPrefix(Tail(s))
        ELSE <<>>

RECURSIVE MathInt(_, _)
MathInt(z, n) ==
    IF z = <<>> THEN n ELSE MathInt(Tail(z), 10 * n + DigitValue(Head(z)))

parseInt(value) ==
    IF value.t # "str" THEN NaN
    ELSE LET S == TrimStart(value.s)
             sign == IF S # <<>> /\ Head(S) = "-" THEN -1 ELSE 1
             R == IF S # <<>> /\ Head(S) \in {"+", "-"} THEN Tail(S) ELSE S
             Z == DigitPrefix(R)
         IN  IF Z = <<>> THEN NaN ELSE Num(sign * MathInt(Z, 0))

NumberIsNaN(v) == v = NaN

\* The accessor without the NaN check.
parseIntOrDefault_unchecked(value, fallback) == parseInt(value)

\* The accessor that accepts only a string that is a number throughout.
parseIntOrDefault_strict(value, fallback) ==
    LET parsed == parseInt(value)
    IN  IF \/ NumberIsNaN(parsed)
           \/ \E i \in 1..Len(value.s) : value.s[i] \notin Digit \cup {"-", "+"}
        THEN Num(fallback) ELSE parsed

\* The accessor that takes only a positive number from the store.
parseIntOrDefault_positive(value, fallback) ==
    LET parsed == parseInt(value)
    IN  IF NumberIsNaN(parsed) \/ parsed.n <= 0 THEN Num(fallback) ELSE parsed

parseIntOrDefault(value, fallback) ==
    LET parsed == parseInt(value)
    IN  IF NumberIsNaN(parsed) THEN Num(fallback) ELSE parsed

-----------------------------------------------------------------------------
(* config.ts: the client, getParameter and the Setting accessors.          *)

SERVICE_NAME == "astro-webui"
AWS_REGION == "eu-west-1"

DEFAULT_DESCRIPTION ==
    <<"This application manages a greeting service. You can create new greetings, look up existing ones by ID, delete greetings, and browse all stored messages. It communicates with the Spring Cloud Service API backend.">>

Leaves == {"app.description", "api.backend.url", "api.timeout.ms",
           "api.retry.count", "log.level", "rate.limit.rpm"}

\* `/${SERVICE_NAME}/${name}`
ParameterName(name) == <<"/", SERVICE_NAME, "/", name>>

\* What ssmClient.send settles to for one parameter.
SendBehaviours(strings) ==
    {[kind |-> "reject"], [kind |-> "noParameter"], [kind |-> "noValue"]}
        \cup {[kind |-> "value", value |-> s] : s \in strings}

\* response.Parameter?.Value
ParameterValue(response) ==
    IF response.kind = "value" THEN Str(response.value) ELSE Undefined

EndpointValues == {Undefined, Str(<<>>), Str(<<"http://localhost:4566">>)}

\* A client that is absent when no endpoint is configured.
createSsmClient_disabled(e) ==
    IF Truthy(e.AWS_SSM_ENDPOINT)
        THEN [region |-> AWS_REGION, endpoint |-> e.AWS_SSM_ENDPOINT]
        ELSE Null

createSsmClient(e) ==
    IF Truthy(e.AWS_SSM_ENDPOINT)
        THEN [region |-> AWS_REGION, endpoint |-> e.AWS_SSM_ENDPOINT]
        ELSE [region |-> AWS_REGION]

\* A settled accessor promise: the value, the parameter names sent to the
\* store and the console.error diagnostics written on the way.
Fulfilled(v, sent, d) ==
    [settled |-> "fulfilled", value |-> v, sent |-> sent, diag |-> d]
Rejected(sent, d) ==
    [settled |-> "rejected", value |-> Undefined, sent |-> sent, diag |-> d]
NotCalled ==
    [settled |-> "pending", value |-> Undefined, sent |-> <<>>, diag |-> <<>>]

\* getParameter without its try/catch.
getParameter_nocatch(client, st, name, fallback) ==
    LET key == ParameterName(name)
    IN  IF client = Null \/ st[name].kind = "reject"
            THEN Rejected(IF client = Null THEN <<>> ELSE <<key>>, <<>>)
            ELSE Fulfilled(Coalesce(ParameterValue(st[name]), fallback), <<key>>, <<>>)

\* getParameter that takes an empty value for an absent one.
getParameter_emptyIsAbsent(client, st, name, fallback) ==
    LET key == ParameterName(name)
    IN  IF client = Null THEN Fulfilled(fallback, <<>>, <<key>>)
        ELSE IF st[name].kind = "reject" THEN Fulfilled(fallback, <<key>>, <<key>>)
        ELSE IF ParameterValue(st[name]) \in {Undefined, Str(<<>>)}
            THEN Fulfilled(fallback, <<key>>, <<>>)
            ELSE Fulfilled(ParameterValue(st[name]), <<key>>, <<>>)

\* getParameter that answers every lookup with the fallback.
getParameter_fallbackOnly(client, st, name, fallback) ==
    Fulfilled(fallback, <<ParameterName(name)>>, <<>>)

getParameter(client, st, name, fallback) ==
    LET key == ParameterName(name)
    IN  IF client = Null
            \* ssmClient.send(...) throws inside the try block
            THEN Fulfilled(fallback, <<>>, <<key>>)
        ELSE IF st[name].kind = "reject"
            \* catch (error): console.error(...); return fallback
            THEN Fulfilled(fallback, <<key>>, <<key>>)
        ELSE Fulfilled(Coalesce(ParameterValue(st[name]), fallback), <<key>>, <<>>)

\* const value = await getParameter(...); return parseIntOrDefault(value, n)
ThenParse(p, fallback) ==
    IF p.settled = "fulfilled"
        THEN [p EXCEPT !.value = parseIntOrDefault(p.value, fallback)]
        ELSE p

loadDescription(client, st) ==
    getParameter(client, st, "app.description", Str(DEFAULT_DESCRIPTION))

getApiBackendUrl(client, st) ==
    getParameter(client, st, "api.backend.url", Str(<<"http://localhost:8080">>))

getApiTimeoutMs(client, st) ==
    ThenParse(getParameter(client, st, "api.timeout.ms", Str(<<"5", "0", "0", "0">>)), 5000)

getApiRetryCount(client, st) ==
    ThenParse(getParameter(client, st, "api.retry.count", Str(<<"3">>)), 3)

getLogLevel(client, st) ==
    getParameter(client, st, "log.level", Str(<<"info">>))

getRateLimitRpm(client, st) ==
    ThenParse(getParameter(client, st, "rate.limit.rpm", Str(<<"6", "0">>)), 60)

-----------------------------------------------------------------------------
(* The upstream API and the Response constructor of the runtime.           *)

H_LIST == "GET /api/greetings"
H_CREATE == "POST /api/greetings"
H_LOOKUP == "GET /api/greetings/:id"
H_DELETE == "DELETE /api/greetings/:id"
Handlers == {H_LIST, H_CREATE, H_LOOKUP, H_DELETE}

Ids == {"550e8400-e29b-41d4-a716-446655440000", "42"}
InboundBodies == {"{\"name\":\"Morning\",\"suffix\":\"Good morning!\"}", "{}",
                  "{ \"name\" : \"Night\" }"}
UpstreamStatuses == {200, 204, 404, 409, 500}
UpstreamBodies == {"", "[]", "{\"message\":\"Duplicate name\"}"}
UpstreamContentTypes == {"application/json", "text/html"}

\* The failures one attempt can raise.
Err(name, k) == [name |-> name, attempt |-> k]
TransportFailures == {"TypeError: fetch failed", "TimeoutError"}

\* What the upstream made of one call of fetch.
Responded(status, body) ==
    [ok |-> TRUE, status |-> status, body |-> <<body>>, err |-> Undefined]
Failed(e) ==
    [ok |-> FALSE, status |-> 0, body |-> <<>>, err |-> e]

\* AbortSignal.timeout(ms) throws a RangeError unless ms is a non-negative
\* integer (the stored timeouts stay far below its upper limit of 2^32 - 1).
DeadlineValid(ms) == ms.t = "num" /\ ms.n >= 0

\* A loop that stops one attempt early.
LoopContinues_short(a, rc) == rc.t = "num" /\ a < rc.n

\* The signal AbortSignal.timeout(ms) returns when it is called in
\* iteration a of the loop: it aborts ms milliseconds after that call.
AbortSignalTimeout(ms, a) == [delay |-> ms, madeIn |-> a]

\* The signal a caller may put in the options of the forwarder.
CallerSignal == [ref |-> "options.signal"]

\* A forwarder that spreads the options after its own signal:
\* { signal: AbortSignal.timeout(timeoutMs), ...options }
SpreadSignal_optionsLast(given, own) == IF given = Undefined THEN own ELSE given

\* { ...options, signal: AbortSignal.timeout(timeoutMs) }: the later key
\* replaces the signal of the options.
SpreadSignal(given, own) == own

\* attempt <= retryCount
LoopContinues(a, rc) == rc.t = "num" /\ a <= rc.n

NullBodyStatus == {101, 103, 204, 205, 304}

NoSettlement ==
    [state |-> "pending", status |-> 0, body |-> <<>>, contentType |-> "",
     reason |-> Undefined]
Thrown(e) ==
    [state |-> "rejected", status |-> 0, body |-> <<>>, contentType |-> "",
     reason |-> e]

\* new Response(body, { status, headers: { 'Content-Type': 'application/json' } })
\* body is <<>> for null and <<text>> for a string.
NewResponse(body, status) ==
    IF status < 200 \/ status > 599
        THEN Thrown(Err("RangeError: status", -1))
    ELSE IF body # <<>> /\ status \in NullBodyStatus
        THEN Thrown(Err("TypeError: null body status", -1))
    ELSE [state |-> "fulfilled", status |-> status, body |-> body,
          contentType |-> "application/json", reason |-> Undefined]

\* JSON.stringify({ message: 'Service temporarily unavailable' })
UnavailableBody == "{\"message\":\"Service temporarily unavailable\"}"

-----------------------------------------------------------------------------
(* The two forwarders and the handlers' error boundaries.                  *)

\* index.ts imports fetchWithRetry of lib/fetchWithRetry.ts, which logs;
\* [id].ts calls the fetchWithRetry it declares itself, which does not.
UsesLibForwarder(h) == h \in {H_LIST, H_CREATE}

\* index.ts wraps its handlers in try/catch; [id].ts does not.
HasCatch(h) == h \in {H_LIST, H_CREATE}

LogRecord(level, msg, url, a, rc, status, err) ==
    [level |-> level, msg |-> msg, url |-> url, attempt |-> a,
     retryCount |-> rc, status |-> status, err |-> err]

\* logger.warn({ url, attempt, retryCount, err: error }, 'Fetch attempt failed')
WarnLog_silent(h, url, a, rc, err) == <<>>
WarnLog(h, url, a, rc, err) ==
    IF UsesLibForwarder(h)
        THEN <<LogRecord("warn", "Fetch attempt failed", url, Num(a), rc, Undefined, err)>>
        ELSE <<>>

\* A forwarder that logs the success of every attempt, the first included.
InfoLog_always(h, url, a, status) ==
    IF UsesLibForwarder(h)
        THEN <<LogRecord("info", "Fetch succeeded after retry", url, Num(a),
                         Undefined, Num(status), Undefined)>>
        ELSE <<>>

\* A forwarder that logs the number of the attempt counted from one.
InfoLog_oneBased(h, url, a, status) ==
    IF UsesLibForwarder(h) /\ a > 0
        THEN <<LogRecord("info", "Fetch succeeded after retry", url, Num(a + 1),
                         Undefined, Num(status), Undefined)>>
        ELSE <<>>

\* if (attempt > 0) logger.info({ url, attempt, status }, 'Fetch succeeded after retry')
InfoLog(h, url, a, status) ==
    IF UsesLibForwarder(h) /\ a > 0
        THEN <<LogRecord("info", "Fetch succeeded after retry", url, Num(a),
                         Undefined, Num(status), Undefined)>>
        ELSE <<>>

\* logger.error({ url, retryCount, err: lastError }, 'All fetch attempts exhausted')
ErrorLog(h, url, rc, err) ==
    IF UsesLibForwarder(h)
        THEN <<LogRecord("error", "All fetch attempts exhausted", url, Undefined,
                         rc, Undefined, err)>>
        ELSE <<>>

\* What the handler promise settles to when its body throws e.
HandlerFailure(h, e) ==
    IF HasCatch(h)
        THEN NewResponse(<<UnavailableBody>>, 502)
        ELSE Thrown(e)

\* `${backendUrl}/api/v1/greetings` and `${backendUrl}/api/v1/greetings/${params.id}`
TargetUrl(h, base, id) ==
    IF h \in {H_LIST, H_CREATE}
        THEN base.s \o <<"/api/v1/greetings">>
        ELSE base.s \o <<"/api/v1/greetings/">> \o <<id>>

\* A forwarder whose request body is spent by the first attempt.
FetchCall_bodyOnce(h, url, body, signal) ==
    [url |-> url,
     method |-> IF h = H_CREATE THEN "POST" ELSE IF h = H_DELETE THEN "DELETE" ELSE "GET",
     contentType |-> IF h = H_CREATE THEN "application/json" ELSE "",
     body |-> IF h = H_CREATE /\ signal.madeIn = 0 THEN <<body>> ELSE <<>>,
     signal |-> signal]

\* The options the handler passes to the forwarder, with the deadline of
\* this attempt: { ...options, signal: AbortSignal.timeout(timeoutMs) }
FetchCall(h, url, body, signal) ==
    [url |-> url,
     method |-> IF h = H_CREATE THEN "POST" ELSE IF h = H_DELETE THEN "DELETE" ELSE "GET",
     contentType |-> IF h = H_CREATE THEN "application/json" ELSE "",
     body |-> IF h = H_CREATE THEN <<body>> ELSE <<>>,
     signal |-> signal]

-----------------------------------------------------------------------------
(* logger.ts: the logger and the initialisation of its level.              *)

\* The characters of a string given as a sequence of tokens.
RECURSIVE Text(_)
Text(s) == IF s = <<>> THEN "" ELSE Head(s) \o Text(Tail(s))

\* The level names pino knows; assigning any other string to logger.level
\* throws.
PinoLevels == {"trace", "debug", "info", "warn", "error", "fatal", "silent"}

\* const logger = pino({ level: process.env.LOG_LEVEL || 'info', ... });
\* initLogLevel();  -- called and not awaited; it is at its first await.
LoggerAtLoad(level) ==
    [level |-> level, default |-> level, init |-> "import",
     settled |-> "pending", resolved |-> Undefined, log |-> <<>>]

\* const { getLogLevel } = await import('./config');
InitImportsConfig ==
    /\ logger.init = "import"
    /\ logger' = [logger EXCEPT !.init = "resolve"]
    /\ UNCHANGED <<env, ssmClient, store, acc>>
    /\ UNCHANGED reqVars

\* An initialisation without the try block: a level pino refuses rejects
\* the promise nobody awaits.
InitAppliesLevel_nocatch ==
    /\ logger.init = "resolve"
    /\ LET p == getLogLevel(ssmClient, store)
           level == Text(p.value.s)
       IN  IF level \in PinoLevels
              THEN logger' = [logger EXCEPT
                       !.level = level, !.resolved = p.value, !.init = "done",
                       !.settled = "fulfilled",
                       !.log = @ \o <<[level |-> "info", msg |-> "Log level set from SSM",
                                       arg |-> p.value]>>]
              ELSE logger' = [logger EXCEPT
                       !.resolved = p.value, !.init = "done", !.settled = "rejected"]
    /\ UNCHANGED <<env, ssmClient, store, acc>>
    /\ UNCHANGED reqVars

\* const level = await getLogLevel(); logger.level = level;
\* logger.info({ level }, 'Log level set from SSM');
\* } catch (err) { logger.warn({ err }, 'Failed to set log level ...') }
InitAppliesLevel ==
    /\ logger.init = "resolve"
    /\ LET p == getLogLevel(ssmClient, store)
           level == Text(p.value.s)
       IN  IF level \in PinoLevels
              THEN logger' = [logger EXCEPT
                       !.level = level, !.resolved = p.value, !.init = "done",
                       !.settled = "fulfilled",
                       !.log = @ \o <<[level |-> "info", msg |-> "Log level set from SSM",
                                       arg |-> p.value]>>]
              ELSE logger' = [logger EXCEPT
                       !.resolved = p.value, !.init = "done", !.settled = "fulfilled",
                       !.log = @ \o <<[level |-> "warn",
                                       msg |-> "Failed to set log level from SSM, keeping default",
                                       arg |-> Str(<<"Error: unknown level ", level>>)]>>]
    /\ UNCHANGED <<env, ssmClient, store, acc>>
    /\ UNCHANGED reqVars

-----------------------------------------------------------------------------
(* The requests.                                                           *)

Reqs == DOMAIN pc

\* The handler promise of request r settles and the request ends.
Finish(r, settlement) ==
    /\ external' = [external EXCEPT ![r] = settlement]
    /\ pc' = [pc EXCEPT ![r] = "done"]

\* A request arrives at one of the four routes.
Receive(r) ==
    /\ pc[r] = "idle"
    /\ \E h \in Handlers :
       \E id \in Ids :
       \E body \in InboundBodies :
          /\ h \in {H_LIST, H_CREATE} => id = CHOOSE i \in Ids : TRUE
          /\ h # H_CREATE => body = CHOOSE b \in InboundBodies : TRUE
          /\ handler' = [handler EXCEPT ![r] = h]
          /\ inbound' = [inbound EXCEPT ![r] =
                 [id |-> id, body |-> body, signal |-> Undefined, aborted |-> FALSE]]
    /\ pc' = [pc EXCEPT ![r] = "url"]
    /\ UNCHANGED <<env, ssmClient, store, acc, logger, description, outcomes, backendUrl, reqBody, pending,
                   timeoutMs, retryCount, attempt, lastError, fetchCalls, logs,
                   queries, diag, fwd, external>>

\* A handler that uses the backend URL the store held when the module was
\* loaded.
ResolveBackendUrl_atLoad(r) ==
    /\ pc[r] = "url"
    /\ LET p == getApiBackendUrl(ssmClient, acc.seen)
       IN  /\ queries' = [queries EXCEPT ![r] = @ \o p.sent]
           /\ diag' = [diag EXCEPT ![r] = @ \o p.diag]
           /\ backendUrl' = [backendUrl EXCEPT ![r] = p.value]
           /\ pc' = [pc EXCEPT ![r] = IF handler[r] = H_CREATE THEN "body" ELSE "call"]
           /\ UNCHANGED external
    /\ UNCHANGED <<env, ssmClient, store, acc, logger, description, outcomes, handler, inbound, reqBody, pending,
                   timeoutMs, retryCount, attempt, lastError, fetchCalls, logs, fwd>>

\* const backendUrl = await getApiBackendUrl();
ResolveBackendUrl(r) ==
    /\ pc[r] = "url"
    /\ LET p == getApiBackendUrl(ssmClient, store)
       IN  /\ queries' = [queries EXCEPT ![r] = @ \o p.sent]
           /\ diag' = [diag EXCEPT ![r] = @ \o p.diag]
           /\ IF p.settled = "fulfilled"
                THEN /\ backendUrl' = [backendUrl EXCEPT ![r] = p.value]
                     /\ pc' = [pc EXCEPT ![r] =
                                 IF handler[r] = H_CREATE THEN "body" ELSE "call"]
                     /\ UNCHANGED external
                ELSE /\ Finish(r, HandlerFailure(handler[r], Err("SSM", -1)))
                     /\ UNCHANGED backendUrl
    /\ UNCHANGED <<env, ssmClient, store, acc, logger, description, outcomes, handler, inbound, reqBody, pending,
                   timeoutMs, retryCount, attempt, lastError, fetchCalls, logs, fwd>>

\* JSON.stringify(JSON.parse(text)) of an inbound body.
Reserialized(text) ==
    IF text = "{ \"name\" : \"Night\" }" THEN "{\"name\":\"Night\"}" ELSE text

\* A handler that parses the inbound body and serializes it again.
ReadInboundBody_reserialized(r) ==
    /\ pc[r] = "body"
    /\ reqBody' = [reqBody EXCEPT ![r] = Reserialized(inbound[r].body)]
    /\ pc' = [pc EXCEPT ![r] = "call"]
    /\ UNCHANGED <<env, ssmClient, store, acc, logger, description, outcomes, handler, inbound, backendUrl, pending,
                   timeoutMs, retryCount, attempt, lastError, fetchCalls, logs,
                   queries, diag, fwd, external>>

\* const body = await request.text();
ReadInboundBody(r) ==
    /\ pc[r] = "body"
    /\ reqBody' = [reqBody EXCEPT ![r] = inbound[r].body]
    /\ pc' = [pc EXCEPT ![r] = "call"]
    /\ UNCHANGED <<env, ssmClient, store, acc, logger, description, outcomes, handler, inbound, backendUrl, pending,
                   timeoutMs, retryCount, attempt, lastError, fetchCalls, logs,
                   queries, diag, fwd, external>>

\* request.text() rejects: the inbound stream failed.
InboundBodyFails(r) ==
    /\ pc[r] = "body"
    /\ Finish(r, HandlerFailure(handler[r], Err("TypeError: body", -1)))
    /\ UNCHANGED <<env, ssmClient, store, acc, logger, description, outcomes, handler, inbound, backendUrl, reqBody,
                   pending, timeoutMs, retryCount, attempt, lastError, fetchCalls,
                   logs, queries, diag, fwd>>

\* fetchWithRetry(url, options) is called:
\* Promise.all([getApiTimeoutMs(), getApiRetryCount()]) starts both lookups.
CallFetchWithRetry(r) ==
    /\ pc[r] = "call"
    /\ pending' = [pending EXCEPT ![r] = {"api.timeout.ms", "api.retry.count"}]
    /\ pc' = [pc EXCEPT ![r] = "config"]
    /\ UNCHANGED <<env, ssmClient, store, acc, logger, description, outcomes, handler, inbound, backendUrl, reqBody,
                   timeoutMs, retryCount, attempt, lastError, fetchCalls, logs,
                   queries, diag, fwd, external>>

\* When the last lookup of Promise.all settles the loop is entered:
\* let lastError; for (let attempt = 0; ...
AfterLookup(r, leaf) ==
    /\ pending' = [pending EXCEPT ![r] = @ \ {leaf}]
    /\ IF pending[r] = {leaf}
         THEN /\ pc' = [pc EXCEPT ![r] = "loop"]
              /\ attempt' = [attempt EXCEPT ![r] = 0]
              /\ lastError' = [lastError EXCEPT ![r] = Undefined]
         ELSE UNCHANGED <<pc, attempt, lastError>>

\* A lookup of Promise.all rejects: fetchWithRetry rejects with its reason.
LookupRejects(r) ==
    /\ fwd' = [fwd EXCEPT ![r] = Thrown(Err("SSM", -1))]
    /\ pc' = [pc EXCEPT ![r] = "settled"]
    /\ pending' = [pending EXCEPT ![r] = {}]
    /\ UNCHANGED <<attempt, lastError>>

\* getApiTimeoutMs() settles.
SettleTimeoutMs(r) ==
    /\ pc[r] = "config"
    /\ "api.timeout.ms" \in pending[r]
    /\ LET p == getApiTimeoutMs(ssmClient, store)
       IN  /\ queries' = [queries EXCEPT ![r] = @ \o p.sent]
           /\ diag' = [diag EXCEPT ![r] = @ \o p.diag]
           /\ IF p.settled = "fulfilled"
                THEN /\ timeoutMs' = [timeoutMs EXCEPT ![r] = p.value]
                     /\ AfterLookup(r, "api.timeout.ms")
                     /\ UNCHANGED fwd
                ELSE /\ LookupRejects(r)
                     /\ UNCHANGED timeoutMs
    /\ UNCHANGED <<env, ssmClient, store, acc, logger, description, outcomes, handler, inbound, backendUrl, reqBody,
                   retryCount, fetchCalls, logs, external>>

\* getApiRetryCount() settles.
SettleRetryCount(r) ==
    /\ pc[r] = "config"
    /\ "api.retry.count" \in pending[r]
    /\ LET p == getApiRetryCount(ssmClient, store)
       IN  /\ queries' = [queries EXCEPT ![r] = @ \o p.sent]
           /\ diag' = [diag EXCEPT ![r] = @ \o p.diag]
           /\ IF p.settled = "fulfilled"
                THEN /\ retryCount' = [retryCount EXCEPT ![r] = p.value]
                     /\ AfterLookup(r, "api.retry.count")
                     /\ UNCHANGED fwd
                ELSE /\ LookupRejects(r)
                     /\ UNCHANGED retryCount
    /\ UNCHANGED <<env, ssmClient, store, acc, logger, description, outcomes, handler, inbound, backendUrl, reqBody,
                   timeoutMs, fetchCalls, logs, external>>

Url(r) == TargetUrl(handler[r], backendUrl[r], inbound[r].id)

\* A loop that resolves the timeout again in every iteration.
IssueAttempt_rereads(r) ==
    /\ pc[r] = "loop"
    /\ LoopContinues(attempt[r], retryCount[r])
    /\ LET p == getApiTimeoutMs(ssmClient, store)
       IN  /\ DeadlineValid(p.value)
           /\ queries' = [queries EXCEPT ![r] = @ \o p.sent]
           /\ fetchCalls' = [fetchCalls EXCEPT ![r] =
                  Append(@, FetchCall(handler[r], Url(r), reqBody[r],
                                      AbortSignalTimeout(p.value, attempt[r])))]
    /\ pc' = [pc EXCEPT ![r] = "inflight"]
    /\ UNCHANGED <<env, ssmClient, store, acc, logger, description, outcomes, handler, inbound, backendUrl, reqBody,
                   pending, timeoutMs, retryCount, attempt, lastError, logs,
                   diag, fwd, external>>

\* A loop that makes one signal before its first iteration and gives it
\* to every attempt.
IssueAttempt_sharedSignal(r) ==
    /\ pc[r] = "loop"
    /\ LoopContinues(attempt[r], retryCount[r])
    /\ DeadlineValid(timeoutMs[r])
    /\ fetchCalls' = [fetchCalls EXCEPT ![r] =
            Append(@, FetchCall(handler[r], Url(r), reqBody[r],
                                AbortSignalTimeout(timeoutMs[r], 0)))]
    /\ pc' = [pc EXCEPT ![r] = "inflight"]
    /\ UNCHANGED <<env, ssmClient, store, acc, logger, description, outcomes, handler, inbound, backendUrl, reqBody,
                   pending, timeoutMs, retryCount, attempt, lastError, logs,
                   queries, diag, fwd, external>>

\* A loop that does not await the attempt before it issues the next.
IssueAttempt_noAwait(r) ==
    /\ pc[r] \in {"loop", "inflight"}
    /\ LoopContinues(Len(fetchCalls[r]), retryCount[r])
    /\ DeadlineValid(timeoutMs[r])
    /\ fetchCalls' = [fetchCalls EXCEPT ![r] =
            Append(@, FetchCall(handler[r], Url(r), reqBody[r],
                                AbortSignalTimeout(timeoutMs[r], Len(fetchCalls[r]))))]
    /\ pc' = [pc EXCEPT ![r] = "inflight"]
    /\ UNCHANGED <<env, ssmClient, store, acc, logger, description, outcomes, handler, inbound, backendUrl, reqBody,
                   pending, timeoutMs, retryCount, attempt, lastError, logs,
                   queries, diag, fwd, external>>

\* attempt <= retryCount and the deadline is made: fetch(url, {...}) is issued.
IssueAttempt(r) ==
    /\ pc[r] = "loop"
    /\ LoopContinues(attempt[r], retryCount[r])
    /\ DeadlineValid(timeoutMs[r])
    /\ fetchCalls' = [fetchCalls EXCEPT ![r] =
            Append(@, FetchCall(handler[r], Url(r), reqBody[r],
                                SpreadSignal(inbound[r].signal,
                                    AbortSignalTimeout(timeoutMs[r], attempt[r]))))]
    /\ pc' = [pc EXCEPT ![r] = "inflight"]
    /\ UNCHANGED <<env, ssmClient, store, acc, logger, description, outcomes, handler, inbound, backendUrl, reqBody,
                   pending, timeoutMs, retryCount, attempt, lastError, logs,
                   queries, diag, fwd, external>>

\* A catch block that forgets the error.
CatchAttempt_noRecord(r, e) ==
    /\ UNCHANGED lastError
    /\ logs' = [logs EXCEPT ![r] =
            @ \o WarnLog(handler[r], Url(r), attempt[r], retryCount[r], e)]
    /\ attempt' = [attempt EXCEPT ![r] = @ + 1]
    /\ pc' = [pc EXCEPT ![r] = "loop"]

\* A loop whose index is not advanced after a failed attempt.
CatchAttempt_noIncrement(r, e) ==
    /\ lastError' = [lastError EXCEPT ![r] = e]
    /\ logs' = [logs EXCEPT ![r] =
            @ \o WarnLog(handler[r], Url(r), attempt[r], retryCount[r], e)]
    /\ UNCHANGED attempt
    /\ pc' = [pc EXCEPT ![r] = "loop"]

\* A loop whose index is a variable of the module, shared by all calls.
CatchAttempt_sharedIndex(r, e) ==
    /\ lastError' = [lastError EXCEPT ![r] = e]
    /\ logs' = [logs EXCEPT ![r] =
            @ \o WarnLog(handler[r], Url(r), attempt[r], retryCount[r], e)]
    /\ attempt' = [q \in Reqs |-> attempt[q] + 1]
    /\ pc' = [pc EXCEPT ![r] = "loop"]

\* catch (error) { lastError = error; logger.warn(...) } and attempt++
CatchAttempt(r, e) ==
    /\ lastError' = [lastError EXCEPT ![r] = e]
    /\ logs' = [logs EXCEPT ![r] =
            @ \o WarnLog(handler[r], Url(r), attempt[r], retryCount[r], e)]
    /\ attempt' = [attempt EXCEPT ![r] = @ + 1]
    /\ pc' = [pc EXCEPT ![r] = "loop"]

\* attempt <= retryCount but AbortSignal.timeout(timeoutMs) throws inside
\* the try block: the attempt fails before fetch is called.
DeadlineThrows(r) ==
    /\ pc[r] = "loop"
    /\ LoopContinues(attempt[r], retryCount[r])
    /\ ~DeadlineValid(timeoutMs[r])
    /\ CatchAttempt(r, Err("RangeError: delay", attempt[r]))
    /\ UNCHANGED <<env, ssmClient, store, acc, logger, description, outcomes, handler, inbound, backendUrl, reqBody,
                   pending, timeoutMs, retryCount, fetchCalls, queries, diag, fwd,
                   external>>

\* How a fetch can reject: by a network failure, and by the signal it was
\* given: a timeout signal expires, the caller's signal aborts when the
\* caller has aborted it.
FailuresOf(signal, aborted) ==
    IF signal = CallerSignal
        THEN {"TypeError: fetch failed"} \cup (IF aborted THEN {"AbortError"} ELSE {})
        ELSE TransportFailures

\* The fetch in flight rejects: a network failure or the deadline expired.
AttemptFails(r) ==
    /\ pc[r] = "inflight"
    /\ \E name \in FailuresOf(fetchCalls[r][Len(fetchCalls[r])].signal, inbound[r].aborted) :
          /\ CatchAttempt(r, Err(name, attempt[r]))
          /\ outcomes' = [outcomes EXCEPT ![r] = Append(@, Failed(Err(name, attempt[r])))]
    /\ UNCHANGED <<env, ssmClient, store, acc, logger, description, handler, inbound, backendUrl, reqBody,
                   pending, timeoutMs, retryCount, fetchCalls, queries, diag, fwd,
                   external>>

\* A forwarder that takes a 5xx response for a failed attempt.
AttemptResponds_retry5xx(r) ==
    /\ pc[r] = "inflight"
    /\ \E status \in UpstreamStatuses :
       \E body \in UpstreamBodies :
       \E ct \in UpstreamContentTypes :
          /\ outcomes' = [outcomes EXCEPT ![r] = Append(@, Responded(status, body))]
          /\ IF status >= 500
                THEN /\ CatchAttempt(r, Err("HTTP error status", attempt[r]))
                     /\ UNCHANGED fwd
                ELSE /\ logs' = [logs EXCEPT ![r] =
                            @ \o InfoLog(handler[r], Url(r), attempt[r], status)]
                     /\ fwd' = [fwd EXCEPT ![r] =
                            [state |-> "fulfilled", status |-> status, body |-> <<body>>,
                             contentType |-> ct, reason |-> Undefined, bodyUsed |-> FALSE]]
                     /\ pc' = [pc EXCEPT ![r] = "settled"]
                     /\ UNCHANGED <<attempt, lastError>>
    /\ UNCHANGED <<env, ssmClient, store, acc, logger, description, handler, inbound, backendUrl, reqBody,
                   pending, timeoutMs, retryCount, fetchCalls, queries, diag, external>>

\* The fetch in flight resolves with a response of any status:
\* if (attempt > 0) logger.info(...); return response;
AttemptResponds(r) ==
    /\ pc[r] = "inflight"
    /\ \E status \in UpstreamStatuses :
       \E body \in UpstreamBodies :
       \E ct \in UpstreamContentTypes :
          /\ logs' = [logs EXCEPT ![r] =
                  @ \o InfoLog(handler[r], Url(r), attempt[r], status)]
          /\ fwd' = [fwd EXCEPT ![r] =
                  [state |-> "fulfilled", status |-> status, body |-> <<body>>,
                   contentType |-> ct, reason |-> Undefined, bodyUsed |-> FALSE]]
          /\ outcomes' = [outcomes EXCEPT ![r] = Append(@, Responded(status, body))]
    /\ pc' = [pc EXCEPT ![r] = "settled"]
    /\ UNCHANGED <<env, ssmClient, store, acc, logger, description, handler, inbound, backendUrl, reqBody,
                   pending, timeoutMs, retryCount, attempt, lastError, fetchCalls,
                   queries, diag, external>>

\* The loop ends without a response:
\* logger.error(...); throw lastError;
Exhausted(r) ==
    /\ pc[r] = "loop"
    /\ ~LoopContinues(attempt[r], retryCount[r])
    /\ logs' = [logs EXCEPT ![r] =
            @ \o ErrorLog(handler[r], Url(r), retryCount[r], lastError[r])]
    /\ fwd' = [fwd EXCEPT ![r] = Thrown(lastError[r])]
    /\ pc' = [pc EXCEPT ![r] = "settled"]
    /\ UNCHANGED <<env, ssmClient, store, acc, logger, description, outcomes, handler, inbound, backendUrl, reqBody,
                   pending, timeoutMs, retryCount, attempt, lastError, fetchCalls,
                   queries, diag, external>>

\* The caller of the forwarder aborts the signal it put in the options.
CallerAborts(r) ==
    /\ pc[r] \in {"call", "config", "loop", "inflight"}
    /\ inbound[r].signal = CallerSignal
    /\ ~inbound[r].aborted
    /\ inbound' = [inbound EXCEPT ![r].aborted = TRUE]
    /\ UNCHANGED <<env, ssmClient, store, acc, logger, description, outcomes, handler, backendUrl, reqBody,
                   pending, timeoutMs, retryCount, attempt, lastError, fetchCalls,
                   logs, queries, diag, fwd, external, pc>>

\* The forwarder rejected: the catch block answers 502, or, without one,
\* the handler promise rejects with the forwarder's error.
ForwardingFailed(r) ==
    /\ pc[r] = "settled"
    /\ fwd[r].state = "rejected"
    /\ Finish(r, HandlerFailure(handler[r], fwd[r].reason))
    /\ UNCHANGED <<env, ssmClient, store, acc, logger, description, outcomes, handler, inbound, backendUrl, reqBody,
                   pending, timeoutMs, retryCount, attempt, lastError, fetchCalls,
                   logs, queries, diag, fwd>>

\* A DELETE that answers without a body when the upstream sent none.
PassThroughBody_byBody(h, res) ==
    IF h = H_DELETE /\ res.body = <<"">> THEN <<>> ELSE res.body

\* A delete handler that reads the text before it looks at the status.
ReadsBody_always(h, res) == TRUE

\* Whether the handler calls res.text():
\* res.status === 204 ? null : await res.text() in DELETE, always elsewhere.
ReadsBody(h, res) == ~(h = H_DELETE /\ res.status = 204)

\* The body the handler gives to new Response: await res.text(), or null
\* for a DELETE answered 204.
PassThroughBody(h, res) ==
    IF h = H_DELETE /\ res.status = 204 THEN <<>> ELSE res.body

\* A handler that passes the upstream's content type through as well.
PassThrough_upstreamType(r) ==
    /\ pc[r] = "settled"
    /\ fwd[r].state = "fulfilled"
    /\ LET made == NewResponse(PassThroughBody(handler[r], fwd[r]), fwd[r].status)
       IN  Finish(r, IF made.state = "fulfilled"
                         THEN [made EXCEPT !.contentType = fwd[r].contentType]
                         ELSE HandlerFailure(handler[r], made.reason))
    /\ fwd' = [fwd EXCEPT ![r].bodyUsed = ReadsBody(handler[r], fwd[r])]
    /\ UNCHANGED <<env, ssmClient, store, acc, logger, description, outcomes, handler, inbound, backendUrl, reqBody,
                   pending, timeoutMs, retryCount, attempt, lastError, fetchCalls,
                   logs, queries, diag>>

\* The forwarder returned a response: it is passed through,
\* new Response(await res.text(), { status: res.status, headers })
PassThrough(r) ==
    /\ pc[r] = "settled"
    /\ fwd[r].state = "fulfilled"
    /\ LET made == NewResponse(PassThroughBody(handler[r], fwd[r]), fwd[r].status)
       IN  Finish(r, IF made.state = "fulfilled"
                         THEN made
                         ELSE HandlerFailure(handler[r], made.reason))
    /\ fwd' = [fwd EXCEPT ![r].bodyUsed = ReadsBody(handler[r], fwd[r])]
    /\ UNCHANGED <<env, ssmClient, store, acc, logger, description, outcomes, handler, inbound, backendUrl, reqBody,
                   pending, timeoutMs, retryCount, attempt, lastError, fetchCalls,
                   logs, queries, diag>>

\* await res.text() rejects: the upstream body could not be read.
UpstreamBodyFails(r) ==
    /\ pc[r] = "settled"
    /\ fwd[r].state = "fulfilled"
    /\ ReadsBody(handler[r], fwd[r])
    /\ Finish(r, HandlerFailure(handler[r], Err("TypeError: terminated", -1)))
    /\ fwd' = [fwd EXCEPT ![r].bodyUsed = ReadsBody(handler[r], fwd[r])]
    /\ UNCHANGED <<env, ssmClient, store, acc, logger, description, outcomes, handler, inbound, backendUrl, reqBody,
                   pending, timeoutMs, retryCount, attempt, lastError, fetchCalls,
                   logs, queries, diag>>

-----------------------------------------------------------------------------
(* The endpoints that do not call the upstream: api/config.ts, api/health. *)

H_CONFIG == "GET /api/config"
H_HEALTH == "GET /api/health"


\* JSON.stringify({ description, apiBackendUrl }), for strings that hold
\* no character JSON escapes.
ConfigBody(d, u) ==
    "{\"description\":\"" \o Text(d.s) \o "\",\"apiBackendUrl\":\"" \o Text(u.s) \o "\"}"

\* JSON.stringify({ status: 'UP' })
HealthBody == "{\"status\":\"UP\"}"

\* GET /api/config is requested:
\* Promise.all([loadDescription(), getApiBackendUrl()]) starts both lookups.
ReceiveConfig(r) ==
    /\ pc[r] = "idle"
    /\ handler' = [handler EXCEPT ![r] = H_CONFIG]
    /\ pending' = [pending EXCEPT ![r] = {"app.description", "api.backend.url"}]
    /\ pc' = [pc EXCEPT ![r] = "cfg"]
    /\ UNCHANGED <<env, ssmClient, store, acc, logger, description, outcomes, inbound, backendUrl,
                   reqBody, timeoutMs, retryCount, attempt, lastError, fetchCalls,
                   logs, queries, diag, fwd, external>>

\* loadDescription() settles.
SettleDescription(r) ==
    /\ pc[r] = "cfg"
    /\ "app.description" \in pending[r]
    /\ LET p == loadDescription(ssmClient, store)
       IN  /\ queries' = [queries EXCEPT ![r] = @ \o p.sent]
           /\ diag' = [diag EXCEPT ![r] = @ \o p.diag]
           /\ IF p.settled = "fulfilled"
                THEN /\ description' = [description EXCEPT ![r] = p.value]
                     /\ pending' = [pending EXCEPT ![r] = @ \ {"app.description"}]
                     /\ UNCHANGED <<pc, external>>
                ELSE /\ Finish(r, Thrown(Err("SSM", -1)))
                     /\ pending' = [pending EXCEPT ![r] = {}]
                     /\ UNCHANGED description
    /\ UNCHANGED <<env, ssmClient, store, acc, logger, outcomes, handler, inbound, backendUrl,
                   reqBody, timeoutMs, retryCount, attempt, lastError, fetchCalls,
                   logs, fwd>>

\* getApiBackendUrl() settles.
SettleConfigUrl(r) ==
    /\ pc[r] = "cfg"
    /\ "api.backend.url" \in pending[r]
    /\ LET p == getApiBackendUrl(ssmClient, store)
       IN  /\ queries' = [queries EXCEPT ![r] = @ \o p.sent]
           /\ diag' = [diag EXCEPT ![r] = @ \o p.diag]
           /\ IF p.settled = "fulfilled"
                THEN /\ backendUrl' = [backendUrl EXCEPT ![r] = p.value]
                     /\ pending' = [pending EXCEPT ![r] = @ \ {"api.backend.url"}]
                     /\ UNCHANGED <<pc, external>>
                ELSE /\ Finish(r, Thrown(Err("SSM", -1)))
                     /\ pending' = [pending EXCEPT ![r] = {}]
                     /\ UNCHANGED backendUrl
    /\ UNCHANGED <<env, ssmClient, store, acc, logger, description, outcomes, handler, inbound,
                   reqBody, timeoutMs, retryCount, attempt, lastError, fetchCalls,
                   logs, fwd>>

\* Both lookups have settled:
\* return new Response(JSON.stringify({ description, apiBackendUrl }), { status: 200, ... })
RespondConfig(r) ==
    /\ pc[r] = "cfg"
    /\ pending[r] = {}
    /\ Finish(r, NewResponse(<<ConfigBody(description[r], backendUrl[r])>>, 200))
    /\ UNCHANGED <<env, ssmClient, store, acc, logger, description, outcomes, handler, inbound,
                   backendUrl, reqBody, pending, timeoutMs, retryCount, attempt,
                   lastError, fetchCalls, logs, queries, diag, fwd>>

\* A health endpoint that reports DOWN once a forwarding call has failed.
Health_probesUpstream(r) ==
    /\ pc[r] = "idle"
    /\ handler' = [handler EXCEPT ![r] = H_HEALTH]
    /\ Finish(r, IF \E q \in Reqs : fwd[q].state = "rejected"
                    THEN NewResponse(<<"{\"status\":\"DOWN\"}">>, 503)
                    ELSE NewResponse(<<HealthBody>>, 200))
    /\ UNCHANGED <<env, ssmClient, store, acc, logger, description, outcomes, inbound, backendUrl,
                   reqBody, pending, timeoutMs, retryCount, attempt, lastError,
                   fetchCalls, logs, queries, diag, fwd>>

\* GET /api/health is requested: the handler is synchronous,
\* return new Response(JSON.stringify({ status: 'UP' }), { status: 200, ... })
Health(r) ==
    /\ pc[r] = "idle"
    /\ handler' = [handler EXCEPT ![r] = H_HEALTH]
    /\ Finish(r, NewResponse(<<HealthBody>>, 200))
    /\ UNCHANGED <<env, ssmClient, store, acc, logger, description, outcomes, inbound, backendUrl,
                   reqBody, pending, timeoutMs, retryCount, attempt, lastError,
                   fetchCalls, logs, queries, diag, fwd>>

-----------------------------------------------------------------------------
(* Direct calls of the Setting accessors.                                  *)

\* An accessor that keeps the answer of its last call and gives it again.
Called_memo(fn, p) ==
    /\ acc' = [fn |-> fn, r |-> IF acc.fn = fn THEN acc.r ELSE p, seen |-> store]
    /\ UNCHANGED <<env, ssmClient, store, logger>>
    /\ UNCHANGED reqVars

Called(fn, p) ==
    /\ acc' = [fn |-> fn, r |-> p, seen |-> store]
    /\ UNCHANGED <<env, ssmClient, store, logger>>
    /\ UNCHANGED reqVars

CallLoadDescription == Called("loadDescription", loadDescription(ssmClient, store))
CallGetApiBackendUrl == Called("getApiBackendUrl", getApiBackendUrl(ssmClient, store))
CallGetApiTimeoutMs == Called("getApiTimeoutMs", getApiTimeoutMs(ssmClient, store))
CallGetApiRetryCount == Called("getApiRetryCount", getApiRetryCount(ssmClient, store))
CallGetLogLevel == Called("getLogLevel", getLogLevel(ssmClient, store))
CallGetRateLimitRpm == Called("getRateLimitRpm", getRateLimitRpm(ssmClient, store))

-----------------------------------------------------------------------------
(* The parameter store changes while the process runs.                     *)

\* The parameters that are changed and what they are changed to: a value
\* is put (put-parameter --overwrite), the parameter is deleted, or the
\* store stops answering for it.
LiveLeaves == {"api.timeout.ms", "log.level"}
LiveBehaviours ==
    {[kind |-> "reject"], [kind |-> "noParameter"]}
        \cup {[kind |-> "value", value |-> s] :
                  s \in {<<"1">>, <<"1", "5">>, <<"a">>}}

StoreUpdate(leaf, b) ==
    /\ b # store[leaf]
    /\ store' = [store EXCEPT ![leaf] = b]
    /\ UNCHANGED <<env, ssmClient, acc, logger>>
    /\ UNCHANGED reqVars

-----------------------------------------------------------------------------
(* The specifications.                                                     *)

DigitChar(d) == CHOOSE c \in Digit : DigitValue(c) = d

RECURSIVE ToDecimal(_)
ToDecimal(n) ==
    IF n < 10 THEN <<DigitChar(n)>>
    ELSE ToDecimal(n \div 10) \o <<DigitChar(n % 10)>>

Unreachable == [l \in Leaves |-> [kind |-> "reject"]]

\* The stores the forwarder is run against.
ForwarderStores ==
    {[Unreachable EXCEPT !["api.backend.url"] = u,
                         !["api.timeout.ms"] = t,
                         !["api.retry.count"] = c] :
        u \in SendBehaviours({<<"http://my-backend:9090">>}) \ {[kind |-> "noParameter"]},
        t \in {[kind |-> "reject"],
               [kind |-> "value", value |-> <<"1", "5">>],
               [kind |-> "value", value |-> <<"-", "1">>]},
        c \in {[kind |-> "reject"], [kind |-> "value", value |-> <<"-", "1">>]}
                \cup {[kind |-> "value", value |-> ToDecimal(n)] : n \in 0..MaxRetryStored}}

\* The stores the accessors are called against: one parameter answers in
\* any way, the others are not found.
AccessorStores ==
    {[Unreachable EXCEPT ![l] = b] :
        l \in Leaves, b \in SendBehaviours(StoredStrings)}

Requests == {1}

InitRequests(rs) ==
    /\ pc = [r \in rs |-> "idle"]
    /\ handler = [r \in rs |-> H_LIST]
    /\ inbound = [r \in rs |-> [id |-> "", body |-> "", signal |-> Undefined, aborted |-> FALSE]]
    /\ backendUrl = [r \in rs |-> Undefined]
    /\ description = [r \in rs |-> Undefined]
    /\ reqBody = [r \in rs |-> ""]
    /\ pending = [r \in rs |-> {}]
    /\ timeoutMs = [r \in rs |-> Undefined]
    /\ retryCount = [r \in rs |-> Undefined]
    /\ attempt = [r \in rs |-> 0]
    /\ lastError = [r \in rs |-> Undefined]
    /\ fetchCalls = [r \in rs |-> <<>>]
    /\ outcomes = [r \in rs |-> <<>>]
    /\ logs = [r \in rs |-> <<>>]
    /\ queries = [r \in rs |-> <<>>]
    /\ diag = [r \in rs |-> <<>>]
    /\ fwd = [r \in rs |-> NoSettlement]
    /\ external = [r \in rs |-> NoSettlement]

\* Module load: const ssmClient = createSsmClient();
InitProcess(stores) ==
    /\ env \in [AWS_SSM_ENDPOINT : EndpointValues]
    /\ ssmClient = createSsmClient(env)
    /\ store \in stores
    /\ acc = [fn |-> "none", r |-> NotCalled, seen |-> store]
    /\ logger = LoggerAtLoad("info")

Init ==
    /\ InitProcess(ForwarderStores)
    /\ InitRequests(Requests)

Next ==
    \/ \E r \in Reqs : Receive(r)
    \/ \E r \in Reqs : ResolveBackendUrl(r)
    \/ \E r \in Reqs : ReadInboundBody(r)
    \/ \E r \in Reqs : InboundBodyFails(r)
    \/ \E r \in Reqs : CallFetchWithRetry(r)
    \/ \E r \in Reqs : SettleTimeoutMs(r)
    \/ \E r \in Reqs : SettleRetryCount(r)
    \/ \E r \in Reqs : IssueAttempt(r)
    \/ \E r \in Reqs : DeadlineThrows(r)
    \/ \E r \in Reqs : AttemptFails(r)
    \/ \E r \in Reqs : AttemptResponds(r)
    \/ \E r \in Reqs : Exhausted(r)
    \/ \E r \in Reqs : ForwardingFailed(r)
    \/ \E r \in Reqs : PassThrough(r)
    \/ \E r \in Reqs : UpstreamBodyFails(r)

Spec == Init /\ [][Next]_vars

InitConfig ==
    /\ InitProcess(AccessorStores)
    /\ InitRequests({})

NextConfig ==
    \/ CallLoadDescription
    \/ CallGetApiBackendUrl
    \/ CallGetApiTimeoutMs
    \/ CallGetApiRetryCount
    \/ CallGetLogLevel
    \/ CallGetRateLimitRpm

SpecConfig == InitConfig /\ [][NextConfig]_vars

\* The store as the seed script leaves it.
Seeded ==
    [l \in Leaves |->
        [kind |-> "value",
         value |->
            CASE l = "app.description" ->
                    <<"This application manages a greeting service. You can create new greetings, look up existing ones by ID, delete greetings, and browse all stored messages. It communicates with the Spring Cloud Service API backend. (Loaded from SSM Parameter Store)">>
              [] l = "api.backend.url" -> <<"http://localhost:8080">>
              [] l = "api.timeout.ms" -> <<"5", "0", "0", "0">>
              [] l = "api.retry.count" -> <<"3">>
              [] l = "log.level" -> <<"debug">>
              [] l = "rate.limit.rpm" -> <<"6", "0">>]]

InitStore ==
    /\ InitProcess({Seeded})
    /\ InitRequests({})

NextStore ==
    \/ CallLoadDescription
    \/ CallGetApiBackendUrl
    \/ CallGetApiTimeoutMs
    \/ CallGetApiRetryCount
    \/ CallGetLogLevel
    \/ CallGetRateLimitRpm
    \/ \E leaf \in LiveLeaves : \E b \in LiveBehaviours : StoreUpdate(leaf, b)

SpecStore == InitStore /\ [][NextStore]_vars

\* Two requests, to any of the endpoints, served by one process while the
\* upstream is down (no attempt is answered) and the backend URL is changed
\* in the store.  The store is seeded, with the retry count put to '0';
\* its timeout is a valid deadline, so the deadline of an attempt is
\* always made.
SiteRequests == {1, 2}

SiteStore ==
    [Seeded EXCEPT !["api.retry.count"] = [kind |-> "value", value |-> <<"0">>]]

SiteUrls == {<<"http://localhost:8080">>, <<"http://my-backend:9090">>}

InitSite ==
    /\ env = [AWS_SSM_ENDPOINT |-> Str(<<"http://localhost:4566">>)]
    /\ ssmClient = createSsmClient(env)
    /\ store = SiteStore
    /\ acc = [fn |-> "none", r |-> NotCalled, seen |-> store]
    /\ logger = LoggerAtLoad("info")
    /\ InitRequests(SiteRequests)

NextSite ==
    \/ \E r \in Reqs : Receive(r)
    \/ \E r \in Reqs : ResolveBackendUrl(r)
    \/ \E r \in Reqs : ReadInboundBody(r)
    \/ \E r \in Reqs : InboundBodyFails(r)
    \/ \E r \in Reqs : CallFetchWithRetry(r)
    \/ \E r \in Reqs : SettleTimeoutMs(r)
    \/ \E r \in Reqs : SettleRetryCount(r)
    \/ \E r \in Reqs : IssueAttempt(r)
    \/ \E r \in Reqs : AttemptFails(r)
    \/ \E r \in Reqs : Exhausted(r)
    \/ \E r \in Reqs : ForwardingFailed(r)
    \/ \E r \in Reqs : ReceiveConfig(r)
    \/ \E r \in Reqs : SettleDescription(r)
    \/ \E r \in Reqs : SettleConfigUrl(r)
    \/ \E r \in Reqs : RespondConfig(r)
    \/ \E r \in Reqs : Health(r)
    \/ \E u \in SiteUrls : StoreUpdate("api.backend.url", [kind |-> "value", value |-> u])

SpecSite == InitSite /\ [][NextSite]_vars

\* One request through the four handlers while the timeout and the retry
\* count are changed in the store.  The values put are valid deadlines,
\* so the deadline of an attempt is always made.
LiveTimeouts == {<<"5", "0", "0", "0">>, <<"1", "5">>}
LiveRetryCounts == {<<"0">>, <<"1">>, <<"2">>}

LiveStore ==
    [Seeded EXCEPT !["api.retry.count"] = [kind |-> "value", value |-> <<"1">>]]

InitLive ==
    /\ env = [AWS_SSM_ENDPOINT |-> Str(<<"http://localhost:4566">>)]
    /\ ssmClient = createSsmClient(env)
    /\ store = LiveStore
    /\ acc = [fn |-> "none", r |-> NotCalled, seen |-> store]
    /\ logger = LoggerAtLoad("info")
    /\ InitRequests(Requests)

NextLive ==
    \/ \E r \in Reqs : Receive(r)
    \/ \E r \in Reqs : ResolveBackendUrl(r)
    \/ \E r \in Reqs : ReadInboundBody(r)
    \/ \E r \in Reqs : InboundBodyFails(r)
    \/ \E r \in Reqs : CallFetchWithRetry(r)
    \/ \E r \in Reqs : SettleTimeoutMs(r)
    \/ \E r \in Reqs : SettleRetryCount(r)
    \/ \E r \in Reqs : IssueAttempt(r)
    \/ \E r \in Reqs : AttemptFails(r)
    \/ \E r \in Reqs : AttemptResponds(r)
    \/ \E r \in Reqs : Exhausted(r)
    \/ \E r \in Reqs : ForwardingFailed(r)
    \/ \E r \in Reqs : PassThrough(r)
    \/ \E r \in Reqs : UpstreamBodyFails(r)
    \/ \E t \in LiveTimeouts : StoreUpdate("api.timeout.ms", [kind |-> "value", value |-> t])
    \/ \E c \in LiveRetryCounts : StoreUpdate("api.retry.count", [kind |-> "value", value |-> c])

SpecLive == InitLive /\ [][NextLive]_vars

\* Two requests through the four handlers, handled at the same time: the
\* event loop runs one continuation of one request at a time, in any
\* order.  The upstream is down and the store is as seeded, with the retry
\* count 1.
InitPair ==
    /\ env = [AWS_SSM_ENDPOINT |-> Str(<<"http://localhost:4566">>)]
    /\ ssmClient = createSsmClient(env)
    /\ store = LiveStore
    /\ acc = [fn |-> "none", r |-> NotCalled, seen |-> store]
    /\ logger = LoggerAtLoad("info")
    /\ InitRequests(SiteRequests)

NextPair ==
    \/ \E r \in Reqs : Receive(r)
    \/ \E r \in Reqs : ResolveBackendUrl(r)
    \/ \E r \in Reqs : ReadInboundBody(r)
    \/ \E r \in Reqs : InboundBodyFails(r)
    \/ \E r \in Reqs : CallFetchWithRetry(r)
    \/ \E r \in Reqs : SettleTimeoutMs(r)
    \/ \E r \in Reqs : SettleRetryCount(r)
    \/ \E r \in Reqs : IssueAttempt(r)
    \/ \E r \in Reqs : AttemptFails(r)
    \/ \E r \in Reqs : Exhausted(r)
    \/ \E r \in Reqs : ForwardingFailed(r)

SpecPair == InitPair /\ [][NextPair]_vars

\* The forwarder called directly: fetchWithRetry(url, options) with the
\* URL and the options of one of the four routes, with or without a signal
\* of the caller in the options.  The store is as seeded, with the retry
\* count 1.
DirectUrl == Str(<<"http://example.com">>)

InitDirect ==
    /\ env = [AWS_SSM_ENDPOINT |-> Str(<<"http://localhost:4566">>)]
    /\ ssmClient = createSsmClient(env)
    /\ store = LiveStore
    /\ acc = [fn |-> "none", r |-> NotCalled, seen |-> store]
    /\ logger = LoggerAtLoad("info")
    /\ pc = [r \in Requests |-> "call"]
    /\ handler \in [Requests -> Handlers]
    /\ inbound \in [Requests -> [id : Ids, body : InboundBodies,
                                 signal : {Undefined, CallerSignal}, aborted : {FALSE}]]
    /\ \A r \in Requests :
          /\ handler[r] \in {H_LIST, H_CREATE} => inbound[r].id = CHOOSE i \in Ids : TRUE
          /\ handler[r] # H_CREATE => inbound[r].body = CHOOSE b \in InboundBodies : TRUE
    /\ backendUrl = [r \in Requests |-> DirectUrl]
    /\ description = [r \in Requests |-> Undefined]
    /\ reqBody = [r \in Requests |-> inbound[r].body]
    /\ pending = [r \in Requests |-> {}]
    /\ timeoutMs = [r \in Requests |-> Undefined]
    /\ retryCount = [r \in Requests |-> Undefined]
    /\ attempt = [r \in Requests |-> 0]
    /\ lastError = [r \in Requests |-> Undefined]
    /\ fetchCalls = [r \in Requests |-> <<>>]
    /\ outcomes = [r \in Requests |-> <<>>]
    /\ logs = [r \in Requests |-> <<>>]
    /\ queries = [r \in Requests |-> <<>>]
    /\ diag = [r \in Requests |-> <<>>]
    /\ fwd = [r \in Requests |-> NoSettlement]
    /\ external = [r \in Requests |-> NoSettlement]

NextDirect ==
    \/ \E r \in Reqs : CallFetchWithRetry(r)
    \/ \E r \in Reqs : SettleTimeoutMs(r)
    \/ \E r \in Reqs : SettleRetryCount(r)
    \/ \E r \in Reqs : IssueAttempt(r)
    \/ \E r \in Reqs : AttemptFails(r)
    \/ \E r \in Reqs : AttemptResponds(r)
    \/ \E r \in Reqs : Exhausted(r)
    \/ \E r \in Reqs : CallerAborts(r)

SpecDirect == InitDirect /\ [][NextDirect]_vars

\* The process after module load: initLogLevel() runs in the background
\* while one request is handled.  The store answers the log level in any
\* way, with a level pino knows, one it does not know, or the empty string;
\* LOG_LEVEL is unset or 'error'.
DefaultLevels == {"info", "error"}

BootStores ==
    {[LiveStore EXCEPT !["log.level"] = b] :
        b \in SendBehaviours({<<"debug">>, <<"error">>, <<"verbose">>, <<>>})}

InitBoot ==
    /\ env = [AWS_SSM_ENDPOINT |-> Str(<<"http://localhost:4566">>)]
    /\ ssmClient = createSsmClient(env)
    /\ store \in BootStores
    /\ acc = [fn |-> "none", r |-> NotCalled, seen |-> store]
    /\ \E d \in DefaultLevels : logger = LoggerAtLoad(d)
    /\ InitRequests(Requests)

NextBoot ==
    \/ InitImportsConfig
    \/ InitAppliesLevel
    \/ \E r \in Reqs : Receive(r)
    \/ \E r \in Reqs : ResolveBackendUrl(r)
    \/ \E r \in Reqs : ReadInboundBody(r)
    \/ \E r \in Reqs : InboundBodyFails(r)
    \/ \E r \in Reqs : CallFetchWithRetry(r)
    \/ \E r \in Reqs : SettleTimeoutMs(r)
    \/ \E r \in Reqs : SettleRetryCount(r)
    \/ \E r \in Reqs : IssueAttempt(r)
    \/ \E r \in Reqs : AttemptFails(r)
    \/ \E r \in Reqs : Exhausted(r)
    \/ \E r \in Reqs : ForwardingFailed(r)

SpecBoot == InitBoot /\ [][NextBoot]_vars

-----------------------------------------------------------------------------
(* Properties of the forwarder and the handlers (specification Spec).      *)

\* The number of log records of one level a request has written.
CountLevel(r, level) ==
    Cardinality({i \in 1..Len(logs[r]) : logs[r][i].level = level})

\* The records 1..n of the request's log are warnings of attempts 0..n-1.
WarningsInOrder(r, n) ==
    /\ Len(logs[r]) >= n
    /\ \A j \in 1..n :
          /\ logs[r][j].level = "warn"
          /\ logs[r][j].msg = "Fetch attempt failed"
          /\ logs[r][j].attempt = Num(j - 1)

\* The response the forwarder returned is the one the upstream gave.
Returned(r, o) ==
    /\ fwd[r].state = "fulfilled"
    /\ fwd[r].status = o.status
    /\ fwd[r].body = o.body

\* C1: in a call of fetchWithRetry of lib/fetchWithRetry.ts with a resolved
\* retry count N >= 0, when the first k upstream attempts fail and attempt k
\* succeeds, then k <= N, exactly k+1 attempts are issued (in every later
\* state too, so none follows the success), exactly k warnings are logged,
\* for the attempts 0..k-1 in order, and the response of attempt k is
\* returned.
C1_SuccessAfterFailures ==
    \A r \in Reqs :
        \A i \in 1..Len(outcomes[r]) :
            ( /\ UsesLibForwarder(handler[r])
              /\ outcomes[r][i].ok
              /\ \A j \in 1..(i - 1) : ~outcomes[r][j].ok )
            => /\ retryCount[r].t = "num"
               /\ retryCount[r].n >= 0
               /\ i - 1 <= retryCount[r].n
               /\ Len(fetchCalls[r]) = i
               /\ Len(outcomes[r]) = i
               /\ CountLevel(r, "warn") = i - 1
               /\ WarningsInOrder(r, i - 1)
               /\ Returned(r, outcomes[r][i])

\* A call that succeeds at its last permitted attempt, k = N >= 1, and
\* whose handler has ended.
C1_Witness ==
    \E r \in Reqs :
        /\ UsesLibForwarder(handler[r])
        /\ pc[r] = "done"
        /\ retryCount[r].t = "num"
        /\ retryCount[r].n >= 1
        /\ Len(outcomes[r]) = retryCount[r].n + 1
        /\ outcomes[r][Len(outcomes[r])].ok
        /\ CountLevel(r, "warn") = retryCount[r].n

\* C2: in a call of fetchWithRetry of lib/fetchWithRetry.ts with a resolved
\* retry count N >= 0, when N+1 consecutive upstream attempts fail, exactly
\* N+1 attempts are issued and exactly N+1 warnings are logged; once the
\* call has settled the log is those warnings followed by exactly one
\* error record 'All fetch attempts exhausted', and the call has rejected
\* with the error of attempt N, not returned a response.
C2_Exhaustion ==
    \A r \in Reqs :
        ( /\ UsesLibForwarder(handler[r])
          /\ retryCount[r].t = "num"
          /\ retryCount[r].n >= 0
          /\ Len(outcomes[r]) >= retryCount[r].n + 1
          /\ \A j \in 1..(retryCount[r].n + 1) : ~outcomes[r][j].ok )
        => LET n == retryCount[r].n + 1
           IN  /\ Len(fetchCalls[r]) = n
               /\ Len(outcomes[r]) = n
               /\ CountLevel(r, "warn") = n
               /\ WarningsInOrder(r, n)
               /\ pc[r] \in {"loop", "settled", "done"}
               /\ pc[r] = "loop" => Len(logs[r]) = n
               /\ pc[r] \in {"settled", "done"} =>
                     /\ Len(logs[r]) = n + 1
                     /\ logs[r][n + 1].level = "error"
                     /\ logs[r][n + 1].msg = "All fetch attempts exhausted"
                     /\ logs[r][n + 1].retryCount = retryCount[r]
                     /\ logs[r][n + 1].err = outcomes[r][n].err
                     /\ fwd[r].state = "rejected"
                     /\ fwd[r].reason = outcomes[r][n].err
                     /\ fwd[r].reason.attempt = retryCount[r].n

\* A call with N >= 1 whose N+1 attempts all failed and which has rejected.
C2_Witness ==
    \E r \in Reqs :
        /\ UsesLibForwarder(handler[r])
        /\ pc[r] = "done"
        /\ retryCount[r].t = "num"
        /\ retryCount[r].n >= 1
        /\ Len(outcomes[r]) = retryCount[r].n + 1
        /\ \A j \in 1..Len(outcomes[r]) : ~outcomes[r][j].ok
        /\ fwd[r].state = "rejected"
        /\ CountLevel(r, "error") = 1

\* C3: in every forwarder, an attempt that completes with a response, of
\* any status, is the last one: that response is returned unchanged and
\* the number of attempts issued is the number of failed attempts plus one.
C3_NoRetryOnResponse ==
    \A r \in Reqs :
        \A i \in 1..Len(outcomes[r]) :
            outcomes[r][i].ok
            => /\ i = Len(outcomes[r])
               /\ Len(fetchCalls[r]) =
                    Cardinality({j \in 1..Len(outcomes[r]) : ~outcomes[r][j].ok}) + 1
               /\ Returned(r, outcomes[r][i])
               /\ pc[r] \in {"settled", "done"}

\* A first attempt answered with an error status (404, 409 or 500): one
\* attempt, and the response is what the forwarder returned.
C3_Witness ==
    \E r \in Reqs :
        /\ pc[r] = "done"
        /\ Len(fetchCalls[r]) = 1
        /\ Len(outcomes[r]) = 1
        /\ outcomes[r][1].ok
        /\ outcomes[r][1].status \in {404, 409, 500}
        /\ fwd[r].status = outcomes[r][1].status

\* C4: whenever the forwarder has failed, the handler of any of the four
\* routes resolves to status 502 with the body
\* {"message":"Service temporarily unavailable"}.
C4_HandlersAnswer502 ==
    \A r \in Reqs :
        (pc[r] = "done" /\ fwd[r].state = "rejected")
        => /\ external[r].state = "fulfilled"
           /\ external[r].status = 502
           /\ external[r].body = <<UnavailableBody>>

-----------------------------------------------------------------------------
(* Properties of the Setting accessors (specification SpecConfig).         *)

StringAccessors == {"loadDescription", "getApiBackendUrl", "getLogLevel"}
NumericAccessors == {"getApiTimeoutMs", "getApiRetryCount", "getRateLimitRpm"}

\* The table of Settings: the leaf each accessor reads and its fallback.
LeafOf(fn) ==
    CASE fn = "loadDescription" -> "app.description"
      [] fn = "getApiBackendUrl" -> "api.backend.url"
      [] fn = "getApiTimeoutMs" -> "api.timeout.ms"
      [] fn = "getApiRetryCount" -> "api.retry.count"
      [] fn = "getLogLevel" -> "log.level"
      [] fn = "getRateLimitRpm" -> "rate.limit.rpm"

FallbackOf(fn) ==
    CASE fn = "loadDescription" -> Str(DEFAULT_DESCRIPTION)
      [] fn = "getApiBackendUrl" -> Str(<<"http://localhost:8080">>)
      [] fn = "getApiTimeoutMs" -> Num(5000)
      [] fn = "getApiRetryCount" -> Num(3)
      [] fn = "getLogLevel" -> Str(<<"info">>)
      [] fn = "getRateLimitRpm" -> Num(60)

WasCalled == acc.fn # "none"

\* What the store answers for the Setting of the accessor that was called.
Answer == store[LeafOf(acc.fn)]

\* A reference base-10 parser: an optional sign, then digits only.
Unsigned(s) == IF s # <<>> /\ s[1] \in {"+", "-"} THEN SubSeq(s, 2, Len(s)) ELSE s
IsIntegerLiteral(s) ==
    /\ Unsigned(s) # <<>>
    /\ \A i \in 1..Len(Unsigned(s)) : Unsigned(s)[i] \in Digit

RECURSIVE RefDigits(_)
RefDigits(z) ==
    IF z = <<>> THEN 0
    ELSE DigitValue(z[Len(z)]) + 10 * RefDigits(SubSeq(z, 1, Len(z) - 1))

RefParse(s) == (IF s[1] = "-" THEN -1 ELSE 1) * RefDigits(Unsigned(s))

\* C5: every Setting accessor is total: whatever the store does (a value,
\* an undefined Value, a response without Parameter, a rejected call) the
\* accessor's promise is fulfilled, with a string for the string Settings
\* and with a number that is not NaN for the numeric ones.
C5_AccessorsTotal ==
    WasCalled =>
        /\ acc.r.settled = "fulfilled"
        /\ acc.fn \in StringAccessors => acc.r.value.t = "str"
        /\ acc.fn \in NumericAccessors => acc.r.value.t = "num"

\* A numeric accessor called while the store rejects the call.
C5_Witness ==
    /\ acc.fn = "getApiTimeoutMs"
    /\ Answer.kind = "reject"
    /\ acc.r.settled = "fulfilled"
    /\ acc.r.value.t = "num"

\* C6: when the store call fails the accessor returns the Setting's static
\* fallback; when the store returns a value the accessor returns that
\* value, as the string it is for a string Setting and as the integer it
\* denotes for a numeric Setting.
C6_FallbackOrStoreValue ==
    WasCalled =>
        /\ Answer.kind = "reject" => acc.r.value = FallbackOf(acc.fn)
        /\ (Answer.kind = "value" /\ acc.fn \in StringAccessors)
              => acc.r.value = Str(Answer.value)
        /\ (Answer.kind = "value" /\ acc.fn \in NumericAccessors
                /\ IsIntegerLiteral(Answer.value))
              => acc.r.value = Num(RefParse(Answer.value))

\* The retry count read from a store that holds '15'.
C6_Witness ==
    /\ acc.fn = "getApiRetryCount"
    /\ Answer = [kind |-> "value", value |-> <<"1", "5">>]
    /\ acc.r.value = Num(15)

\* C7: a numeric accessor returns, for every stored valid base-10 integer
\* literal, the integer the reference parser gives, and for no stored
\* string NaN.
C7_NumericParse ==
    (WasCalled /\ acc.fn \in NumericAccessors /\ Answer.kind = "value") =>
        /\ acc.r.value # NaN
        /\ acc.r.value.t = "num"
        /\ IsIntegerLiteral(Answer.value) => acc.r.value.n = RefParse(Answer.value)

\* The rate limit read from a store that holds '-15'.
C7_Witness ==
    /\ acc.fn = "getRateLimitRpm"
    /\ Answer = [kind |-> "value", value |-> <<"-", "1", "5">>]
    /\ acc.r.value = Num(-15)

\* C8 as claimed: a numeric accessor returns the fallback for every stored
\* string with non-numeric content: the empty string, letters, digits
\* followed by other characters, a decimal, digits within white space.
C8_NonNumericIsFallback ==
    (WasCalled /\ acc.fn \in NumericAccessors /\ Answer.kind = "value"
        /\ ~IsIntegerLiteral(Answer.value))
    => acc.r.value = FallbackOf(acc.fn)

\* Where the number of a stored string starts: after the leading white
\* space and one optional sign; and where its run of digits ends.
SignAt(s) ==
    CHOOSE p \in 1..(Len(s) + 1) :
        /\ \A i \in 1..(p - 1) : s[i] \in StrWhiteSpaceChar
        /\ p <= Len(s) => s[p] \notin StrWhiteSpaceChar
DigitsAt(s) == IF SignAt(s) <= Len(s) /\ s[SignAt(s)] \in {"+", "-"}
               THEN SignAt(s) + 1 ELSE SignAt(s)
StartsNumber(s) == DigitsAt(s) <= Len(s) /\ s[DigitsAt(s)] \in Digit
DigitsEnd(s) ==
    CHOOSE e \in DigitsAt(s)..Len(s) :
        /\ \A i \in DigitsAt(s)..e : s[i] \in Digit
        /\ e < Len(s) => s[e + 1] \notin Digit
LeadingInteger(s) ==
    (IF s[SignAt(s)] = "-" THEN -1 ELSE 1)
        * RefDigits(SubSeq(s, DigitsAt(s), DigitsEnd(s)))

\* C8 as amended: a numeric accessor returns the fallback exactly for the
\* stored strings that, after leading white space and one optional sign,
\* do not begin with a digit; for every other stored string it returns
\* the integer its leading digits denote, with that sign, whatever follows
\* the digits.
C8_FallbackIffNoLeadingDigits ==
    (WasCalled /\ acc.fn \in NumericAccessors /\ Answer.kind = "value") =>
        IF StartsNumber(Answer.value)
            THEN acc.r.value = Num(LeadingInteger(Answer.value))
            ELSE acc.r.value = FallbackOf(acc.fn)

\* The timeout read from a store that holds '5.1': 5, not the fallback.
C8_Witness ==
    /\ acc.fn = "getApiTimeoutMs"
    /\ Answer = [kind |-> "value", value |-> <<"5", ".", "1">>]
    /\ acc.r.value = Num(5)

\* C9 as claimed: a string accessor returns the store's value only when it
\* is present and not empty, and the fallback when the store returns the
\* empty string or no value.
C9_EmptyIsFallback ==
    (WasCalled /\ acc.fn \in StringAccessors) =>
        /\ (Answer.kind = "value" /\ Answer.value # <<>>)
              => acc.r.value = Str(Answer.value)
        /\ (Answer.kind = "value" /\ Answer.value = <<>>)
              => acc.r.value = FallbackOf(acc.fn)
        /\ Answer.kind \in {"noValue", "noParameter"}
              => acc.r.value = FallbackOf(acc.fn)

\* C9 as amended: a string accessor returns the store's value as it is
\* whenever the store returns one, the empty string included, and the
\* fallback only when the value is absent (an undefined Value, no
\* Parameter) or the call fails.
C9_PresentIsReturned ==
    (WasCalled /\ acc.fn \in StringAccessors) =>
        /\ Answer.kind = "value" => acc.r.value = Str(Answer.value)
        /\ Answer.kind \in {"noValue", "noParameter", "reject"}
              => acc.r.value = FallbackOf(acc.fn)

\* The backend URL read from a store that holds the empty string.
C9_Witness ==
    /\ acc.fn = "getApiBackendUrl"
    /\ Answer = [kind |-> "value", value |-> <<>>]
    /\ acc.r.value = Str(<<>>)

EndpointConfigured == Truthy(env.AWS_SSM_ENDPOINT)

-----------------------------------------------------------------------------
(* Properties of the accessors under store changes (specification          *)
(* SpecStore).                                                             *)

\* What the store answered, when the last call ran, for its Setting.
SeenAnswer == acc.seen[LeafOf(acc.fn)]

\* C11: no caching: every accessor call sends exactly one query, for its
\* own parameter, and its result is read from the store as the store was
\* when the call ran, after every change made before it: the stored value
\* (as the integer it denotes for a numeric Setting), or the fallback when
\* the parameter was deleted or the store did not answer.
C11_NoCaching ==
    WasCalled =>
        /\ acc.r.sent = <<ParameterName(LeafOf(acc.fn))>>
        /\ (SeenAnswer.kind = "value" /\ acc.fn \in StringAccessors)
              => acc.r.value = Str(SeenAnswer.value)
        /\ (SeenAnswer.kind = "value" /\ acc.fn \in NumericAccessors)
              => acc.r.value = IF IsIntegerLiteral(SeenAnswer.value)
                                  THEN Num(RefParse(SeenAnswer.value))
                                  ELSE FallbackOf(acc.fn)
        /\ SeenAnswer.kind \in {"reject", "noParameter"}
              => acc.r.value = FallbackOf(acc.fn)

\* The timeout read after the seeded '5000' was changed to '15'.
C11_Witness ==
    /\ acc.fn = "getApiTimeoutMs"
    /\ Seeded["api.timeout.ms"].value = <<"5", "0", "0", "0">>
    /\ SeenAnswer = [kind |-> "value", value |-> <<"1", "5">>]
    /\ acc.r.value = Num(15)
    /\ acc.r.sent = <<ParameterName("api.timeout.ms")>>

-----------------------------------------------------------------------------
(* Properties of the external responses (specification Spec).              *)

\* The response a handler makes of the upstream's status and body text.
Verbatim(res) ==
    [state |-> "fulfilled", status |-> res.status, body |-> res.body,
     contentType |-> "application/json", reason |-> Undefined]

DeleteAt204(r) == handler[r] = H_DELETE /\ fwd[r].status = 204

\* C12: in every handler, when the response the forwarder returned is
\* passed through (its body text was read), whatever its status, and the
\* DELETE answered 204 apart, the external response has the status of the
\* upstream response and its body text.
C12_PassThroughVerbatim ==
    [][\A r \in Reqs :
          (PassThrough(r) /\ ~DeleteAt204(r))
          => /\ external'[r].state = "fulfilled"
             /\ external'[r].status = fwd[r].status
             /\ external'[r].body = fwd[r].body]_vars

\* The body text could not be read: the handler without a catch block
\* rejected with the failure of res.text().
BodyUnread(r) == external[r] = Thrown(Err("TypeError: terminated", -1))

Unavailable == Verbatim([status |-> 502, body |-> <<UnavailableBody>>])

\* C15: a failed attempt is followed by a waiting step: the position a
\* call is in right after the failure of attempt k is not one from which
\* attempt k+1 is issued.
C15_BackoffBeforeRetry ==
    [][\A r \in Reqs :
          AttemptFails(r)
          => ~( /\ pc'[r] = "loop"
                /\ LoopContinues(attempt'[r], retryCount'[r])
                /\ DeadlineValid(timeoutMs'[r]) )]_vars

\* C17: with the store unreachable and an upstream that answers no
\* attempt, every handler whose forwarding call has failed has made
\* exactly 4 upstream attempts, with a retry count of 3 and a deadline of
\* 5000 ms each, and answers 502 with the body
\* {"message":"Service temporarily unavailable"}.
C17_UnreachableStoreDeadUpstream ==
    \A r \in Reqs :
        (store = Unreachable /\ pc[r] = "done" /\ fwd[r].state = "rejected")
        => /\ retryCount[r] = Num(3)
           /\ timeoutMs[r] = Num(5000)
           /\ Len(fetchCalls[r]) = 4
           /\ \A j \in 1..Len(outcomes[r]) : ~outcomes[r][j].ok
           /\ external[r] = Unavailable

C19_JsonContentType ==
    \A r \in Reqs :
        external[r].state = "fulfilled"
        => external[r].contentType = "application/json"

\* An upstream 404 of type text/html passed through as application/json.
C19_Witness ==
    \E r \in Reqs :
        /\ pc[r] = "done"
        /\ fwd[r].state = "fulfilled"
        /\ fwd[r].status = 404
        /\ fwd[r].contentType = "text/html"
        /\ external[r].state = "fulfilled"
        /\ external[r].status = 404
        /\ external[r].contentType = "application/json"

-----------------------------------------------------------------------------
(* Properties of two requests (specification SpecSite).                    *)

\* The request has ended after its forwarding call failed.
ForwardingFailure(r) ==
    /\ pc[r] = "done"
    /\ handler[r] \in Handlers
    /\ fwd[r].state = "rejected"

\* C14: any two invocations that ended in forwarding failure, whatever
\* their handlers, errors, backend URLs and resource ids, settled in the
\* same way: the same status, content type and body.
C14_UniformFailure ==
    \A r1 \in Reqs :
    \A r2 \in Reqs :
        (ForwardingFailure(r1) /\ ForwardingFailure(r2))
        => external[r1] = external[r2]

\* Two ended invocations of one endpoint that differ in nothing they were
\* given but the backend URL, and ended with the same status.
SameButUrl(r1, r2) ==
    /\ pc[r1] = "done"
    /\ pc[r2] = "done"
    /\ handler[r1] = handler[r2]
    /\ inbound[r1] = inbound[r2]
    /\ description[r1] = description[r2]
    /\ outcomes[r1] = outcomes[r2]
    /\ external[r1].state = external[r2].state
    /\ external[r1].status = external[r2].status

\* C16: the body of no response depends on the backend URL: two
\* invocations of one endpoint that differ only in the backend URL they
\* read answer with the same body.
C16_BackendUrlHidden ==
    \A r1 \in Reqs :
    \A r2 \in Reqs :
        SameButUrl(r1, r2) => external[r1].body = external[r2].body

\* C20: GET /api/health answers 200 with the body {"status":"UP"} and the
\* content type application/json, whatever the store holds and whatever
\* the other request did before or does meanwhile.
C20_HealthUp ==
    \A r \in Reqs :
        (handler[r] = H_HEALTH /\ pc[r] = "done")
        => /\ external[r].state = "fulfilled"
           /\ external[r].status = 200
           /\ external[r].body = <<"{\"status\":\"UP\"}">>
           /\ external[r].contentType = "application/json"

\* A health request answered after the other request's forwarding call
\* failed and after the backend URL was changed in the store.
C20_Witness ==
    \E r \in Reqs :
    \E q \in Reqs :
        /\ handler[r] = H_HEALTH
        /\ pc[r] = "done"
        /\ external[r].status = 200
        /\ ForwardingFailure(q)
        /\ Len(outcomes[q]) = 1
        /\ store["api.backend.url"].value = <<"http://my-backend:9090">>

-----------------------------------------------------------------------------
(* Properties of the forwarder's log (specification Spec).                 *)

\* The call of fetchWithRetry of lib/fetchWithRetry.ts has settled.
LibCallSettled(r) ==
    /\ UsesLibForwarder(handler[r])
    /\ pc[r] \in {"settled", "done"}
    /\ fwd[r].state # "pending"

\* The last record of the log is the terminal record of the settlement.
TerminalLog(r) ==
    LET last == logs[r][Len(logs[r])]
    IN  IF fwd[r].state = "fulfilled"
            THEN /\ last.level = "info"
                 /\ last.msg = "Fetch succeeded after retry"
            ELSE /\ last.level = "error"
                 /\ last.msg = "All fetch attempts exhausted"

\* C21 as claimed: the log of every settled call, the call whose first
\* attempt succeeds included, is its warnings in increasing attempt order
\* followed by exactly one terminal record: the info record when the call
\* returned, the error record when it rejected.
C21_WarningsThenOneTerminal ==
    \A r \in Reqs :
        LibCallSettled(r)
        => LET n == CountLevel(r, "warn")
           IN  /\ WarningsInOrder(r, n)
               /\ Len(logs[r]) = n + 1
               /\ TerminalLog(r)

\* C21 as amended: while a call runs its log is its warnings in increasing
\* attempt order; once it has settled the log is those warnings followed
\* by exactly one terminal record (info when it returned, error when it
\* rejected), except that a call whose first attempt succeeds has logged
\* nothing at all.
C21_WarningsThenTerminalUnlessFirst ==
    \A r \in Reqs :
        UsesLibForwarder(handler[r])
        => LET n == CountLevel(r, "warn")
           IN  /\ WarningsInOrder(r, n)
               /\ ~LibCallSettled(r) => Len(logs[r]) = n
               /\ LibCallSettled(r) =>
                     IF fwd[r].state = "fulfilled" /\ Len(outcomes[r]) = 1
                        THEN logs[r] = <<>>
                        ELSE /\ Len(logs[r]) = n + 1
                             /\ TerminalLog(r)

\* A call that returned the response of its first attempt and logged
\* nothing.
C21_Witness ==
    \E r \in Reqs :
        /\ LibCallSettled(r)
        /\ fwd[r].state = "fulfilled"
        /\ Len(outcomes[r]) = 1
        /\ retryCount[r] = Num(2)
        /\ logs[r] = <<>>

\* C22: the info record is written exactly when the attempt that succeeds
\* has an index above 0: a call whose first attempt succeeds has no warn,
\* info or error record; a call that succeeds at attempt k >= 1 has exactly
\* one info record, its last, with the attempt index k and the status of
\* the response, and no error record; and no other call has an info
\* record.
C22_InfoIffRecovered ==
    \A r \in Reqs :
        UsesLibForwarder(handler[r])
        => LET k == Len(outcomes[r]) - 1
           IN  /\ CountLevel(r, "info") > 0 => (fwd[r].state = "fulfilled" /\ k >= 1)
               /\ (fwd[r].state = "fulfilled" /\ k = 0) => logs[r] = <<>>
               /\ (fwd[r].state = "fulfilled" /\ k >= 1) =>
                     /\ CountLevel(r, "info") = 1
                     /\ CountLevel(r, "error") = 0
                     /\ CountLevel(r, "warn") = k
                     /\ logs[r][k + 1].level = "info"
                     /\ logs[r][k + 1].msg = "Fetch succeeded after retry"
                     /\ logs[r][k + 1].attempt = Num(k)
                     /\ logs[r][k + 1].status = Num(outcomes[r][k + 1].status)
                     /\ logs[r][k + 1].url = Url(r)

\* A call answered 500 at its second attempt: one info record, with
\* attempt 1 and status 500.
C22_Witness ==
    \E r \in Reqs :
        /\ LibCallSettled(r)
        /\ Len(outcomes[r]) = 2
        /\ outcomes[r][2].ok
        /\ outcomes[r][2].status = 500
        /\ logs[r][2].level = "info"
        /\ logs[r][2].attempt = Num(1)
        /\ logs[r][2].status = Num(500)


-----------------------------------------------------------------------------
(* Properties of one call of the forwarder: its configuration, the order   *)
(* of its attempts and its end.                                            *)

\* How often the parameter of a leaf was asked for by request r.
Asked(r, leaf) ==
    Cardinality({i \in 1..Len(queries[r]) : queries[r][i] = ParameterName(leaf)})

\* The call of request r has passed Promise.all.
Resolved(r) == pc[r] \in {"loop", "inflight"} \/ Len(fetchCalls[r]) > 0

\* C23: the timeout and the retry count are looked up once per call, before
\* the first attempt: neither parameter is asked for twice, both have been
\* asked for when an attempt exists, every attempt carries the deadline
\* resolved then, and the number of attempts is bounded by the retry count
\* resolved then (and equals it plus one when the call rejects), whatever
\* the store holds by now.
C23_ResolvedOncePerCall ==
    \A r \in Reqs :
        /\ Asked(r, "api.timeout.ms") <= 1
        /\ Asked(r, "api.retry.count") <= 1
        /\ Resolved(r) =>
              /\ Asked(r, "api.timeout.ms") = 1
              /\ Asked(r, "api.retry.count") = 1
              /\ \A i \in 1..Len(fetchCalls[r]) :
                    fetchCalls[r][i].signal.delay = timeoutMs[r]
              /\ Len(fetchCalls[r]) <= retryCount[r].n + 1
              /\ fwd[r].state = "rejected" => Len(fetchCalls[r]) = retryCount[r].n + 1

\* A call that resolved timeout 5000 and retry count 1 has its second
\* attempt in flight while the store now holds timeout 15 and retry
\* count 0.
C23_Witness ==
    \E r \in Reqs :
        /\ pc[r] = "inflight"
        /\ Len(fetchCalls[r]) = 2
        /\ retryCount[r] = Num(1)
        /\ timeoutMs[r] = Num(5000)
        /\ fetchCalls[r][2].signal.delay = Num(5000)
        /\ store["api.timeout.ms"].value = <<"1", "5">>
        /\ store["api.retry.count"].value = <<"0">>

\* C24: the attempts of a call are sequential: the issued attempts exceed
\* the completed ones by at most one, by one exactly while an attempt is in
\* flight, every attempt before the latest has completed with a failure,
\* and the attempts were issued in the order of their indices.
C24_AttemptsSequential ==
    \A r \in Reqs :
        LET issued == Len(fetchCalls[r])
            completed == Len(outcomes[r])
        IN  /\ issued - completed \in {0, 1}
            /\ issued - completed = 1 <=> pc[r] = "inflight"
            /\ \A k \in 1..(issued - 1) :
                  /\ k <= completed
                  /\ ~outcomes[r][k].ok
            /\ \A k \in 1..issued : fetchCalls[r][k].signal.madeIn = k - 1

\* The third attempt of a call is in flight after two failed attempts.
C24_Witness ==
    \E r \in Reqs :
        /\ pc[r] = "inflight"
        /\ Len(fetchCalls[r]) = 3
        /\ Len(outcomes[r]) = 2
        /\ ~outcomes[r][1].ok
        /\ ~outcomes[r][2].ok

\* Attempt k (counted from 1) of request r ended by the expiry of its
\* deadline.
Expired(r, k) ==
    /\ k <= Len(outcomes[r])
    /\ ~outcomes[r][k].ok
    /\ outcomes[r][k].err.name = "TimeoutError"

\* C25: every attempt carries a deadline of timeoutMs made in its own
\* iteration, and an attempt whose deadline expired is one failed attempt
\* among others: the logging forwarder has its warning at the attempt's
\* place, and when the retry count allows another attempt the loop is at
\* that attempt or has issued it; the call rejects only when the loop is
\* exhausted.
C25_FreshDeadlinePerAttempt ==
    \A r \in Reqs :
        /\ \A k \in 1..Len(fetchCalls[r]) :
              /\ fetchCalls[r][k].signal.delay = timeoutMs[r]
              /\ fetchCalls[r][k].signal.madeIn = k - 1
        /\ \A k \in 1..Len(outcomes[r]) :
              Expired(r, k) =>
                 /\ UsesLibForwarder(handler[r]) =>
                       /\ logs[r][k].level = "warn"
                       /\ logs[r][k].attempt = Num(k - 1)
                       /\ logs[r][k].err = outcomes[r][k].err
                 /\ k <= retryCount[r].n =>
                       \/ pc[r] = "loop" /\ attempt[r] = k /\ Len(fetchCalls[r]) = k
                       \/ Len(fetchCalls[r]) >= k + 1
                 /\ fwd[r].state = "rejected" => Len(outcomes[r]) = retryCount[r].n + 1

\* The deadline of the first attempt expired, the second attempt got a
\* deadline of its own and was answered.
C25_Witness ==
    \E r \in Reqs :
        /\ Expired(r, 1)
        /\ Len(fetchCalls[r]) = 2
        /\ fetchCalls[r][2].signal = [delay |-> timeoutMs[r], madeIn |-> 1]
        /\ Len(outcomes[r]) = 2
        /\ outcomes[r][2].ok
        /\ fwd[r].state = "fulfilled"


\* Request r is inside its call of the forwarder.
InCall(r) == pc[r] \in {"call", "config", "loop", "inflight"}

\* The iterations the loop of request r can still begin.
Remaining(r) ==
    IF LoopContinues(attempt[r], retryCount[r])
        THEN retryCount[r].n - attempt[r] + 1
        ELSE 0

\* What is left of the call of request r: the phase, and within the phase
\* the lookups not yet settled or the steps left in the loop.
Measure(r) ==
    CASE pc[r] = "call" -> <<3, 0>>
      [] pc[r] = "config" -> <<2, Cardinality(pending[r])>>
      [] pc[r] = "loop" -> <<1, 2 * Remaining(r) + 1>>
      [] pc[r] = "inflight" -> <<1, 2 * Remaining(r)>>
      [] OTHER -> <<0, 0>>

Below(m, n) == m[1] < n[1] \/ (m[1] = n[1] /\ m[2] < n[2])

\* The attempts of request r do not exceed retryCount + 1 (none when the
\* retry count is negative).
AttemptsBounded(r) ==
    retryCount[r].t = "num" =>
        Len(fetchCalls[r]) <= (IF retryCount[r].n >= 0 THEN retryCount[r].n + 1 ELSE 0)

\* C26: a call of the forwarder terminates: every step a call takes (a
\* lookup settles, an attempt is issued, an attempt settles, the loop ends)
\* lowers a measure that is bounded below, the steps that end the call
\* leave it returned or rejected, and at no point has the call issued more
\* than retryCount + 1 attempts.
C26_CallTerminates ==
    [][\A r \in Reqs :
          (InCall(r) /\ <<pc[r], pending[r], attempt[r], fetchCalls[r]>>'
                          # <<pc[r], pending[r], attempt[r], fetchCalls[r]>>)
          => /\ Below(Measure(r)', Measure(r))
             /\ Measure(r)'[2] >= 0
             /\ AttemptsBounded(r)'
             /\ ~InCall(r)' => /\ pc'[r] = "settled"
                               /\ fwd'[r].state \in {"fulfilled", "rejected"}]_vars

\* A call that resolved the retry count -1 ended without an attempt.
C26_Witness ==
    \E r \in Reqs :
        /\ pc[r] = "settled"
        /\ retryCount[r] = Num(-1)
        /\ fetchCalls[r] = <<>>
        /\ fwd[r].state = "rejected"
        /\ Measure(r) = <<0, 0>>


\* C27: with the retry count 0 and a deadline that can be made, a call
\* that ended has issued exactly one attempt; it returned the response of
\* that attempt or, when the attempt failed, rejected with its error, and
\* the handler of a rejected call answered 502.
C27_ZeroRetryOneAttempt ==
    \A r \in Reqs :
        (retryCount[r] = Num(0) /\ DeadlineValid(timeoutMs[r])
            /\ pc[r] \in {"settled", "done"} /\ fwd[r].state # "pending")
        => /\ Len(fetchCalls[r]) = 1
           /\ Len(outcomes[r]) = 1
           /\ outcomes[r][1].ok =>
                 /\ fwd[r].state = "fulfilled"
                 /\ fwd[r].status = outcomes[r][1].status
                 /\ fwd[r].body = outcomes[r][1].body
           /\ ~outcomes[r][1].ok =>
                 /\ fwd[r].state = "rejected"
                 /\ fwd[r].reason = outcomes[r][1].err
                 /\ pc[r] = "done" => external[r] = Unavailable


-----------------------------------------------------------------------------
(* Properties of the accessors' fallbacks (specification SpecConfig).      *)

C29_NoRangeValidation ==
    (WasCalled /\ acc.fn \in NumericAccessors /\ Answer.kind = "value"
        /\ IsIntegerLiteral(Answer.value) /\ RefParse(Answer.value) <= 0)
    => /\ acc.r.settled = "fulfilled"
       /\ acc.r.value = Num(RefParse(Answer.value))
       /\ acc.r.value.n <= 0
       /\ acc.r.value # FallbackOf(acc.fn)
       /\ acc.r.diag = <<>>

\* The retry count stored as '0' is returned as 0.
C29_Witness ==
    /\ acc.fn = "getApiRetryCount"
    /\ Answer = [kind |-> "value", value |-> <<"0">>]
    /\ acc.r.value = Num(0)


-----------------------------------------------------------------------------
(* Properties of the handlers' error boundary (specification Spec).        *)

\* Record i of request r's log was written by the handler's catch block:
\* an error record that is not the forwarder's, with the greeting id when
\* the route has one.
HandlerErrorLog(r, i) ==
    /\ logs[r][i].level = "error"
    /\ logs[r][i].msg # "All fetch attempts exhausted"
    /\ handler[r] \in {H_LOOKUP, H_DELETE} =>
          /\ "greetingId" \in DOMAIN logs[r][i]
          /\ logs[r][i].greetingId = inbound[r].id

\* C30: a handler whose forwarder call rejected has written an error
\* record of its own (with the greeting id for the by-id routes) and has
\* answered 502.
C30_HandlerLogsFailure ==
    \A r \in Reqs :
        (pc[r] = "done" /\ fwd[r].state = "rejected")
        => /\ \E i \in 1..Len(logs[r]) : HandlerErrorLog(r, i)
           /\ external[r] = Unavailable


-----------------------------------------------------------------------------
(* Properties of what the handlers send upstream.                          *)

\* The path a route adds to the backend URL, and the method it uses.
RoutePath(r) ==
    IF handler[r] \in {H_LIST, H_CREATE}
        THEN <<"/api/v1/greetings">>
        ELSE <<"/api/v1/greetings/", inbound[r].id>>

RouteMethod(r) ==
    CASE handler[r] = H_CREATE -> "POST"
      [] handler[r] = H_DELETE -> "DELETE"
      [] OTHER -> "GET"

\* C31: a proxy handler asks the accessor for the backend URL when its
\* request is handled and gets what the store holds at that moment; every
\* call it makes upstream goes to that URL followed by the route's path
\* (with the id for the by-id routes), with the route's method.
C31_TargetFromStorePerRequest ==
    [][\A r \in Reqs :
          /\ (pc[r] = "url" /\ pc'[r] # "url") =>
                /\ backendUrl'[r] = Str(store["api.backend.url"].value)
                /\ queries'[r] = queries[r] \o <<ParameterName("api.backend.url")>>
          /\ handler'[r] \in Handlers =>
                \A i \in 1..Len(fetchCalls'[r]) :
                   /\ fetchCalls'[r][i].url = backendUrl'[r].s \o RoutePath(r)'
                   /\ fetchCalls'[r][i].method = RouteMethod(r)']_vars

\* A list request called the seeded backend; the store was changed, and
\* the delete request handled afterwards called the new backend.
C31_Witness ==
    /\ pc[1] = "done"
    /\ handler[1] = H_LIST
    /\ fetchCalls[1][1].url = <<"http://localhost:8080", "/api/v1/greetings">>
    /\ fetchCalls[1][1].method = "GET"
    /\ handler[2] = H_DELETE
    /\ Len(fetchCalls[2]) = 1
    /\ fetchCalls[2][1].url = <<"http://my-backend:9090", "/api/v1/greetings/", "42">>
    /\ fetchCalls[2][1].method = "DELETE"
    /\ store["api.backend.url"].value = <<"http://my-backend:9090">>


\* C32: every upstream call of the create handler has the method POST, the
\* header Content-Type: application/json and, as its body, the text of the
\* inbound request as it was received.
C32_PostBodyAsReceived ==
    \A r \in Reqs :
        handler[r] = H_CREATE =>
            \A i \in 1..Len(fetchCalls[r]) :
                /\ fetchCalls[r][i].method = "POST"
                /\ fetchCalls[r][i].contentType = "application/json"
                /\ fetchCalls[r][i].body = <<inbound[r].body>>

\* A create request whose body is JSON with spaces was sent twice, with
\* the spaces.
C32_Witness ==
    \E r \in Reqs :
        /\ handler[r] = H_CREATE
        /\ inbound[r].body = "{ \"name\" : \"Night\" }"
        /\ Len(fetchCalls[r]) = 2
        /\ fetchCalls[r][1].body = <<"{ \"name\" : \"Night\" }">>
        /\ fetchCalls[r][2].body = <<"{ \"name\" : \"Night\" }">>


-----------------------------------------------------------------------------
(* Properties of requests handled at the same time (specification          *)
(* SpecPair).                                                              *)

\* Everything request r has: its place, its inputs, its locals, its calls
\* and its results.
RequestState(r) ==
    <<pc[r], handler[r], inbound[r], backendUrl[r], description[r], reqBody[r],
      pending[r], timeoutMs[r], retryCount[r], attempt[r], lastError[r],
      fetchCalls[r], outcomes[r], logs[r], queries[r], diag[r], fwd[r],
      external[r]>>

\* What a call alone logs for the outcomes its attempts had: a warning per
\* failed attempt and, once it rejected, the error record.
AloneLog(r) ==
    IF ~UsesLibForwarder(handler[r]) THEN <<>>
    ELSE [k \in 1..Len(outcomes[r]) |->
             LogRecord("warn", "Fetch attempt failed", Url(r), Num(k - 1),
                       retryCount[r], Undefined, outcomes[r][k].err)]
         \o IF fwd[r].state = "rejected"
               THEN <<LogRecord("error", "All fetch attempts exhausted", Url(r),
                                Undefined, retryCount[r], Undefined,
                                outcomes[r][Len(outcomes[r])].err)>>
               ELSE <<>>

\* What a call alone has done for the outcomes its attempts had.
AsAlone(r) ==
    /\ logs[r] = AloneLog(r)
    /\ Len(fetchCalls[r]) = Len(outcomes[r]) + (IF pc[r] = "inflight" THEN 1 ELSE 0)
    /\ fwd[r].state = "rejected" =>
          /\ Len(outcomes[r]) = retryCount[r].n + 1
          /\ fwd[r].reason = outcomes[r][Len(outcomes[r])].err
    /\ fwd[r].state # "fulfilled"

-----------------------------------------------------------------------------
(* Properties of the initialisation of the log level (specification        *)
(* SpecBoot).                                                              *)

\* The log-level setting as the accessor resolves it: the stored value, or
\* 'info' when the store fails or has none.
ResolvedLevel ==
    IF store["log.level"].kind = "value"
        THEN Text(store["log.level"].value)
        ELSE "info"

\* A step of the handler of request r.
HandlingStep(r) ==
    \/ Receive(r) \/ ResolveBackendUrl(r) \/ ReadInboundBody(r)
    \/ InboundBodyFails(r) \/ CallFetchWithRetry(r) \/ SettleTimeoutMs(r)
    \/ SettleRetryCount(r) \/ IssueAttempt(r) \/ AttemptFails(r)
    \/ Exhausted(r) \/ ForwardingFailed(r)

\* C34: initLogLevel never rejects.  Until it has ended the logger has
\* its default level; when it has ended it is fulfilled and has written one
\* record: with a level the logger accepts, the logger has that level and
\* the record is the info record; otherwise the logger keeps its default
\* level and the record is the warning.  A request that has not ended can
\* always take its next step, whatever the initialisation has done so far.
C34_InitNeverEscalates ==
    /\ logger.settled # "rejected"
    /\ logger.init # "done" =>
          /\ logger.settled = "pending"
          /\ logger.level = logger.default
          /\ logger.log = <<>>
    /\ logger.init = "done" =>
          /\ logger.settled = "fulfilled"
          /\ Len(logger.log) = 1
          /\ IF ResolvedLevel \in PinoLevels
                THEN /\ logger.level = ResolvedLevel
                     /\ logger.log[1].level = "info"
                     /\ logger.log[1].msg = "Log level set from SSM"
                ELSE /\ logger.level = logger.default
                     /\ logger.log[1].level = "warn"
                     /\ logger.log[1].msg = "Failed to set log level from SSM, keeping default"
    /\ \A r \in Reqs : pc[r] # "done" => ENABLED HandlingStep(r)

\* The store held 'verbose': the initialisation ended with the warning
\* and the default level 'error', and the request has ended.
C34_Witness ==
    \E r \in Reqs :
        /\ store["log.level"] = [kind |-> "value", value |-> <<"verbose">>]
        /\ logger.init = "done"
        /\ logger.settled = "fulfilled"
        /\ logger.level = "error"
        /\ logger.default = "error"
        /\ logger.log[1].level = "warn"
        /\ pc[r] = "done"


-----------------------------------------------------------------------------
(* Properties of the forwarder and the handlers at the edges of their      *)
(* inputs (specification Spec).                                            *)

\* C35: a call that resolved its retry count (with a deadline that can be
\* made) and rejected has issued at least one attempt, and it rejected
\* with the error of one of its attempts, not with undefined.
C35_AttemptBeforeFailing ==
    \A r \in Reqs :
        (fwd[r].state = "rejected" /\ retryCount[r].t = "num"
            /\ DeadlineValid(timeoutMs[r]))
        => /\ Len(fetchCalls[r]) >= 1
           /\ fwd[r].reason # Undefined
           /\ \E k \in 1..Len(outcomes[r]) :
                 ~outcomes[r][k].ok /\ fwd[r].reason = outcomes[r][k].err


\* C36: a handler invocation that has ended resolved to a response, and
\* the status of the response is 502 or the status the upstream answered
\* with.
C36_HandlerAlwaysResponds ==
    \A r \in Reqs :
        (pc[r] = "done" /\ handler[r] \in Handlers)
        => /\ external[r].state = "fulfilled"
           /\ \/ external[r].status = 502
              \/ fwd[r].state = "fulfilled" /\ external[r].status = fwd[r].status


\* A call of fetch without its signal.
Request(call) ==
    [url |-> call.url, method |-> call.method, contentType |-> call.contentType,
     body |-> call.body]

\* C37: the attempts of a call are the same request: every attempt has the
\* URL, method, header and body of the first, which are the caller's (the
\* body of a create request is the text the handler read); two attempts
\* differ in their signal and in nothing else.
C37_SameRequestEveryAttempt ==
    \A r \in Reqs :
        \A i, j \in 1..Len(fetchCalls[r]) :
            /\ Request(fetchCalls[r][i]) = Request(fetchCalls[r][j])
            /\ fetchCalls[r][i].url = backendUrl[r].s \o RoutePath(r)
            /\ handler[r] = H_CREATE => fetchCalls[r][i].body = <<reqBody[r]>>
            /\ handler[r] # H_CREATE => fetchCalls[r][i].body = <<>>
            /\ i # j => fetchCalls[r][i].signal # fetchCalls[r][j].signal

\* A create request that failed twice was sent a third time with the same
\* body.
C37_Witness ==
    \E r \in Reqs :
        /\ handler[r] = H_CREATE
        /\ Len(fetchCalls[r]) = 3
        /\ Len(outcomes[r]) >= 2
        /\ ~outcomes[r][1].ok
        /\ ~outcomes[r][2].ok
        /\ fetchCalls[r][3].body = <<"{\"name\":\"Morning\",\"suffix\":\"Good morning!\"}">>
        /\ fetchCalls[r][3].method = "POST"


\* C38: a proxied request sends at most three queries to the parameter
\* store; when its first attempt is issued, and from then on however many
\* attempts follow, it has sent exactly three: the backend URL first, then
\* the timeout and the retry count in the order their lookups settled.
C38_ThreeQueriesPerRequest ==
    \A r \in Reqs :
        /\ Len(queries[r]) <= 3
        /\ (Len(fetchCalls[r]) >= 1 \/ pc[r] \in {"loop", "inflight"}) =>
              /\ Len(queries[r]) = 3
              /\ queries[r][1] = ParameterName("api.backend.url")
              /\ {queries[r][2], queries[r][3]} =
                    {ParameterName("api.timeout.ms"), ParameterName("api.retry.count")}

\* A request at its fourth attempt has sent three queries.
C38_Witness ==
    \E r \in Reqs :
        /\ Len(fetchCalls[r]) = 4
        /\ Len(queries[r]) = 3
        /\ retryCount[r] = Num(3)


\* C39: the forwarder does not use a signal of its caller: the signal of
\* every attempt is the timeout signal made for that attempt and never the
\* one given in the options, no attempt ends by the caller's abort, and a
\* call whose caller has aborted rejects only when its loop is exhausted.
C39_CallerSignalIgnored ==
    \A r \in Reqs :
        /\ \A i \in 1..Len(fetchCalls[r]) :
              /\ fetchCalls[r][i].signal = [delay |-> timeoutMs[r], madeIn |-> i - 1]
              /\ fetchCalls[r][i].signal # inbound[r].signal
        /\ \A k \in 1..Len(outcomes[r]) :
              ~outcomes[r][k].ok => outcomes[r][k].err.name # "AbortError"
        /\ (inbound[r].aborted /\ fwd[r].state = "rejected") =>
              Len(outcomes[r]) = retryCount[r].n + 1

\* The caller gave a signal and has aborted it; the call made its two
\* attempts, with timeout signals, and the second was answered.
C39_Witness ==
    \E r \in Reqs :
        /\ inbound[r].signal = CallerSignal
        /\ inbound[r].aborted
        /\ Len(fetchCalls[r]) = 2
        /\ fetchCalls[r][2].signal = [delay |-> Num(5000), madeIn |-> 1]
        /\ fwd[r].state = "fulfilled"


\* C40: the body of the upstream's response to a delete is read exactly
\* when the status is not 204: not before the handler has looked at the
\* status, and, when the handler has ended, read for every other status
\* and left unread for 204, whatever the upstream sent as the body.
C40_DeleteReadsBodyUnless204 ==
    \A r \in Reqs :
        (handler[r] = H_DELETE /\ fwd[r].state = "fulfilled")
        => /\ pc[r] = "settled" => ~fwd[r].bodyUsed
           /\ pc[r] = "done" => (fwd[r].bodyUsed <=> fwd[r].status # 204)

\* A delete answered 204 with a body: the handler has ended and the body
\* was not read.
C40_Witness ==
    \E r \in Reqs :
        /\ handler[r] = H_DELETE
        /\ pc[r] = "done"
        /\ fwd[r].status = 204
        /\ fwd[r].body = <<"[]">>
        /\ ~fwd[r].bodyUsed
        /\ external[r].status = 204

====
